---- MODULE Spec2Model ----
(***************************************************************************)
(* German Flashcards: spaced-repetition scheduling, review ledger, undo    *)
(* and the authorization gate, modelled from main.py, scheduling.py and    *)
(* the check_card_owner trigger of migration_add_trigger.py.               *)
(*                                                                         *)
(* One interactive session (one call of main(page), one connection) acts   *)
(* on the store.  Every handler is one action.  ease_factor is kept in     *)
(* hundredths (2.5 = 250); dates are day numbers.                          *)
(***************************************************************************)
EXTENDS Integers, FiniteSets, Sequences, TLC

\* ------------------------------------------------------------------ bounds
MaxEvents == 2

\* the review specification: days 0..MaxDay and at most MaxReviews gradings
MaxDay == 7

MaxReviews == 3

\* inputs of calculate_schedule: interval_days 0..MaxInterval, ease_factor
\* 0..MaxEase hundredths in steps of 0.05, repetitions 0..MaxReps
MaxInterval == 12

MaxEase == 300

MaxReps == 3

\* --------------------------------------------------------------- constants
NULL == -1

Grades == {"again", "hard", "good", "easy"}

\* points of a transaction at which the connection may fail
FailPoints == {"none", "set_config", "first", "second", "commit"}

NoUser == [id |-> NULL, is_admin |-> "null"]

NoCard ==
    [id |-> NULL, interval_days |-> NULL, ease_factor |-> NULL,
     repetitions |-> NULL, next_due |-> NULL]

NoAction ==
    [card_id |-> NULL, event_id |-> NULL,
     previous |-> [interval_days |-> NULL, ease_factor |-> NULL,
                   repetitions |-> NULL, next_due |-> NULL]]

\* no call of run_in_user_transaction in progress and none made yet
NoTxn ==
    [pc |-> "idle", user_id |-> NULL, prev_autocommit |-> TRUE,
     local_user_id |-> NULL, before |-> NULL, seen |-> NULL, outcome |-> ""]

VARIABLES
    users,                  \* table users: id -> [is_admin]
    decks,                  \* table decks: id -> [owner_id]
    cards,                  \* table cards: id -> schedule row
    review_events,          \* table review_events: set of rows
    review_events_id_seq,   \* next value of the SERIAL review_events.id
    today,                  \* CURRENT_DATE / date.today()
    session_user_id,        \* session-level app.current_user_id of conn
    current_user,
    current_deck_id,
    current_deck_owner_id,
    current_card,
    is_showing_answer,
    last_rating_action,
    practice_view_visible,
    app_layout_visible,
    autocommit,             \* conn.autocommit
    txn,                    \* the run_in_user_transaction call in progress
    lastCall                \* the handler that ran last and its outcome

vars ==
    <<users, decks, cards, review_events, review_events_id_seq, today,
      session_user_id, current_user, current_deck_id, current_deck_owner_id,
      current_card, is_showing_answer, last_rating_action,
      practice_view_visible, app_layout_visible, autocommit, txn, lastCall>>

storeVars == <<users, decks, cards, review_events, review_events_id_seq>>

\* the connection: autocommit mode and the transaction of the current call
connVars == <<autocommit, txn>>

\* ------------------------------------------------------------ pure helpers
Max(a, b) == IF a >= b THEN a ELSE b

\* Python 3 round(n / d) for n >= 0, d > 0: ties go to the even integer
RoundHalfEven(n, d) ==
    LET q == n \div d
        r == n % d
    IN  IF 2 * r < d THEN q
        ELSE IF 2 * r > d THEN q + 1
        ELSE IF q % 2 = 0 THEN q ELSE q + 1

\* the ease deltas with 'hard' penalised like 'again'
Delta_hard_as_again(grade) ==
    CASE grade = "again" -> -20
      [] grade = "hard"  -> -20
      [] grade = "good"  -> 0
      [] grade = "easy"  -> 15
      [] OTHER           -> 0

\* the ease deltas with an unrecognised grade penalised like 'again'
Delta_unknown_as_again(grade) ==
    CASE grade = "again" -> -20
      [] grade = "hard"  -> -15
      [] grade = "good"  -> 0
      [] grade = "easy"  -> 15
      [] OTHER           -> -20

Delta(grade) ==
    CASE grade = "again" -> -20
      [] grade = "hard"  -> -15
      [] grade = "good"  -> 0
      [] grade = "easy"  -> 15
      [] OTHER           -> 0

\* calculate_schedule leaving an 'again' card due on the day of the grading
calculate_schedule_again_due_today(interval_days, ease_factor, repetitions, grade, day) ==
    LET reps == IF grade = "again" THEN 0 ELSE repetitions + 1
        ivl  == IF grade = "again" THEN 1
                ELSE IF reps = 1 THEN 1
                ELSE IF reps = 2 THEN 6
                ELSE Max(1, RoundHalfEven(interval_days * ease_factor, 100))
    IN  [interval_days |-> ivl,
         ease_factor   |-> Max(130, ease_factor + Delta(grade)),
         repetitions   |-> reps,
         next_due      |-> IF grade = "again" THEN day ELSE day + ivl]

\* calculate_schedule with a second interval of three days
calculate_schedule_second_interval_three(interval_days, ease_factor, repetitions, grade, day) ==
    LET reps == IF grade = "again" THEN 0 ELSE repetitions + 1
        ivl  == IF grade = "again" THEN 1
                ELSE IF reps = 1 THEN 1
                ELSE IF reps = 2 THEN 3
                ELSE Max(1, RoundHalfEven(interval_days * ease_factor, 100))
    IN  [interval_days |-> ivl,
         ease_factor   |-> Max(130, ease_factor + Delta(grade)),
         repetitions   |-> reps,
         next_due      |-> day + ivl]

\* calculate_schedule without max(1, ...) and max(1.3, ...)
calculate_schedule_no_floor(interval_days, ease_factor, repetitions, grade, day) ==
    LET reps == IF grade = "again" THEN 0 ELSE repetitions + 1
        ivl  == IF grade = "again" THEN 1
                ELSE IF reps = 1 THEN 1
                ELSE IF reps = 2 THEN 6
                ELSE RoundHalfEven(interval_days * ease_factor, 100)
    IN  [interval_days |-> ivl,
         ease_factor   |-> ease_factor + Delta(grade),
         repetitions   |-> reps,
         next_due      |-> day + ivl]

\* calculate_schedule with 'again' resetting the repetitions only
calculate_schedule_again_keeps_interval(interval_days, ease_factor, repetitions, grade, day) ==
    LET reps == IF grade = "again" THEN 0 ELSE repetitions + 1
        ivl  == IF grade = "again" THEN Max(1, interval_days)
                ELSE IF reps = 1 THEN 1
                ELSE IF reps = 2 THEN 6
                ELSE Max(1, RoundHalfEven(interval_days * ease_factor, 100))
    IN  [interval_days |-> ivl,
         ease_factor   |-> Max(130, ease_factor + Delta(grade)),
         repetitions   |-> reps,
         next_due      |-> day + ivl]

\* calculate_schedule adjusting the ease before it computes the interval
calculate_schedule_new_ease_first(interval_days, ease_factor, repetitions, grade, day) ==
    LET reps == IF grade = "again" THEN 0 ELSE repetitions + 1
        ease == Max(130, ease_factor + Delta(grade))
        ivl  == IF grade = "again" THEN 1
                ELSE IF reps = 1 THEN 1
                ELSE IF reps = 2 THEN 6
                ELSE Max(1, RoundHalfEven(interval_days * ease, 100))
    IN  [interval_days |-> ivl,
         ease_factor   |-> ease,
         repetitions   |-> reps,
         next_due      |-> day + ivl]

calculate_schedule(interval_days, ease_factor, repetitions, grade, day) ==
    LET reps == IF grade = "again" THEN 0 ELSE repetitions + 1
        ivl  == IF grade = "again" THEN 1
                ELSE IF reps = 1 THEN 1
                ELSE IF reps = 2 THEN 6
                ELSE Max(1, RoundHalfEven(interval_days * ease_factor, 100))
    IN  [interval_days |-> ivl,
         ease_factor   |-> Max(130, ease_factor + Delta(grade)),
         repetitions   |-> reps,
         next_due      |-> day + ivl]

\* SQL COALESCE(v, d)
Coalesce(v, d) == IF v = NULL THEN d ELSE v

\* Python "v or d" on a number or None
OrDefault(v, d) == IF v = NULL \/ v = 0 THEN d ELSE v

\* Python truthiness of a users.is_admin value (True / False / None)
Truthy(b) == b = "t"

\* SQL three-valued logic on "t" / "f" / "null"
Not3(a) == IF a = "null" THEN "null" ELSE IF a = "t" THEN "f" ELSE "t"

And3(a, b) ==
    IF a = "f" \/ b = "f" THEN "f"
    ELSE IF a = "null" \/ b = "null" THEN "null" ELSE "t"

Or3(a, b) ==
    IF a = "t" \/ b = "t" THEN "t"
    ELSE IF a = "null" \/ b = "null" THEN "null" ELSE "f"

Neq3(a, b) == IF a = NULL \/ b = NULL THEN "null" ELSE IF a # b THEN "t" ELSE "f"

IsNull3(a) == IF a = NULL THEN "t" ELSE "f"

\* ----------------------------------------------------------------- schema
DefaultCard(deck_id, day) ==
    [deck_id |-> deck_id, interval_days |-> 1, ease_factor |-> 250,
     repetitions |-> 0, next_due |-> day]

\* a row that existed before the schedule columns were added
LegacyCard(deck_id) ==
    [deck_id |-> deck_id, interval_days |-> NULL, ease_factor |-> NULL,
     repetitions |-> NULL, next_due |-> NULL]

\* startup backfill of the schedule columns
backfill_cards(cs, day) ==
    [c \in DOMAIN cs |->
        [deck_id       |-> cs[c].deck_id,
         interval_days |-> Coalesce(cs[c].interval_days, 1),
         ease_factor   |-> Coalesce(cs[c].ease_factor, 250),
         repetitions   |-> Coalesce(cs[c].repetitions, 0),
         next_due      |-> Coalesce(cs[c].next_due, day)]]

ScheduleOf(row) ==
    [interval_days |-> row.interval_days, ease_factor |-> row.ease_factor,
     repetitions |-> row.repetitions, next_due |-> row.next_due]

\* UPDATE cards SET interval_days, ease_factor, repetitions, next_due WHERE id
\* the UPDATE of a schedule without its next_due column
UpdateCardSchedule_keeps_next_due(cs, card_id, s) ==
    IF card_id \in DOMAIN cs
    THEN [cs EXCEPT ![card_id] =
            [deck_id |-> @.deck_id, interval_days |-> s.interval_days,
             ease_factor |-> s.ease_factor, repetitions |-> s.repetitions,
             next_due |-> @.next_due]]
    ELSE cs

UpdateCardSchedule(cs, card_id, s) ==
    IF card_id \in DOMAIN cs
    THEN [cs EXCEPT ![card_id] =
            [deck_id |-> @.deck_id, interval_days |-> s.interval_days,
             ease_factor |-> s.ease_factor, repetitions |-> s.repetitions,
             next_due |-> s.next_due]]
    ELSE cs

\* ---------------------------------------------------------------- trigger
\* TRUE iff the BEFORE INSERT OR UPDATE trigger raises 'Permission denied'
check_card_owner(us, ds, new_deck_id, bound_user_id) ==
    LET deck_owner == IF new_deck_id \in DOMAIN ds
                      THEN ds[new_deck_id].owner_id ELSE NULL
        current_user_id == bound_user_id
        current_is_admin ==
            IF current_user_id # NULL
            THEN IF current_user_id \in DOMAIN us
                 THEN us[current_user_id].is_admin ELSE "null"
            ELSE "f"
    IN  IF deck_owner = NULL
        THEN Not3(current_is_admin) = "t"
        ELSE Or3(IsNull3(current_user_id),
                 And3(Neq3(current_user_id, deck_owner),
                      Not3(current_is_admin))) = "t"

\* ------------------------------------------------------------ transactions
Db == [cards |-> cards, events |-> review_events, seq |-> review_events_id_seq]

\* run_in_user_transaction reporting a failed commit whose work stays applied
run_in_user_transaction_commit_applied(db, fail, w) ==
    IF fail = "set_config"
    THEN [raised |-> TRUE, db |-> db, result |-> w.result]
    ELSE IF w.raised
    THEN [raised |-> TRUE, db |-> [db EXCEPT !.seq = w.db.seq],
          result |-> w.result]
    ELSE IF fail = "commit"
    THEN [raised |-> TRUE, db |-> w.db, result |-> w.result]
    ELSE [raised |-> FALSE, db |-> w.db, result |-> w.result]

\* run_in_user_transaction without the rollback of the except branch
run_in_user_transaction_no_rollback(db, fail, w) ==
    IF fail = "set_config"
    THEN [raised |-> TRUE, db |-> db, result |-> w.result]
    ELSE IF w.raised \/ fail = "commit"
    THEN [raised |-> TRUE, db |-> w.db, result |-> w.result]
    ELSE [raised |-> FALSE, db |-> w.db, result |-> w.result]

\* w is the outcome of work() on the transaction's working copy:
\* [raised, db, result].  A value drawn from the id sequence is never
\* given back by a rollback.
run_in_user_transaction(db, fail, w) ==
    IF fail = "set_config"
    THEN [raised |-> TRUE, db |-> db, result |-> w.result]
    ELSE IF w.raised \/ fail = "commit"
    THEN [raised |-> TRUE, db |-> [db EXCEPT !.seq = w.db.seq],
          result |-> w.result]
    ELSE [raised |-> FALSE, db |-> w.db, result |-> w.result]


\* save_schedule with a ledger that has no foreign keys
save_schedule_no_foreign_key(db, us, ds, bound_user_id, user_id, card_id, deck_id, grade, schedule, day, fail) ==
    LET row_exists == card_id \in DOMAIN db.cards
        denied == /\ row_exists
                  /\ check_card_owner(us, ds, db.cards[card_id].deck_id,
                                      bound_user_id)
        db1 == [db EXCEPT !.cards = UpdateCardSchedule(@, card_id, schedule)]
        ev == [id |-> db.seq, user_id |-> user_id, card_id |-> card_id,
               deck_id |-> deck_id, grade |-> grade]
    IN  IF fail = "first" \/ denied
        THEN [raised |-> TRUE, db |-> db, result |-> NULL]
        ELSE IF fail = "second"
        THEN [raised |-> TRUE, db |-> db1, result |-> NULL]
        ELSE [raised |-> FALSE,
              db |-> [db1 EXCEPT !.events = @ \cup {ev}, !.seq = @ + 1],
              result |-> db.seq]

\* save_schedule writing the ledger row with a fixed grade
save_schedule_fixed_grade(db, us, ds, bound_user_id, user_id, card_id, deck_id, grade, schedule, day, fail) ==
    LET row_exists == card_id \in DOMAIN db.cards
        denied == /\ row_exists
                  /\ check_card_owner(us, ds, db.cards[card_id].deck_id,
                                      bound_user_id)
        db1 == [db EXCEPT !.cards = UpdateCardSchedule(@, card_id, schedule)]
        fk_ok == /\ user_id \in DOMAIN us
                 /\ card_id \in DOMAIN db.cards
                 /\ (deck_id = NULL \/ deck_id \in DOMAIN ds)
        ev == [id |-> db.seq, user_id |-> user_id, card_id |-> card_id,
               deck_id |-> deck_id, grade |-> "good"]
    IN  IF fail = "first" \/ denied
        THEN [raised |-> TRUE, db |-> db, result |-> NULL]
        ELSE IF fail = "second"
        THEN [raised |-> TRUE, db |-> db1, result |-> NULL]
        ELSE IF ~fk_ok
        THEN [raised |-> TRUE, db |-> [db1 EXCEPT !.seq = @ + 1],
              result |-> NULL]
        ELSE [raised |-> FALSE,
              db |-> [db1 EXCEPT !.events = @ \cup {ev}, !.seq = @ + 1],
              result |-> db.seq]

\* work() of update_schedule: UPDATE cards, then INSERT INTO review_events
save_schedule(db, us, ds, bound_user_id, user_id, card_id, deck_id, grade, schedule, day, fail) ==
    LET row_exists == card_id \in DOMAIN db.cards
        denied == /\ row_exists
                  /\ check_card_owner(us, ds, db.cards[card_id].deck_id,
                                      bound_user_id)
        db1 == [db EXCEPT !.cards = UpdateCardSchedule(@, card_id, schedule)]
        fk_ok == /\ user_id \in DOMAIN us
                 /\ card_id \in DOMAIN db.cards
                 /\ (deck_id = NULL \/ deck_id \in DOMAIN ds)
        ev == [id |-> db.seq, user_id |-> user_id, card_id |-> card_id,
               deck_id |-> deck_id, grade |-> grade]
    IN  IF fail = "first" \/ denied
        THEN [raised |-> TRUE, db |-> db, result |-> NULL]
        ELSE IF fail = "second"
        THEN [raised |-> TRUE, db |-> db1, result |-> NULL]
        ELSE IF ~fk_ok
        THEN [raised |-> TRUE, db |-> [db1 EXCEPT !.seq = @ + 1],
              result |-> NULL]
        ELSE [raised |-> FALSE,
              db |-> [db1 EXCEPT !.events = @ \cup {ev}, !.seq = @ + 1],
              result |-> db.seq]

\* the row of get_next_card / undo_write turned into the session's card
MakeCurrentCard(card_id, row) ==
    [id            |-> card_id,
     interval_days |-> OrDefault(row.interval_days, 1),
     ease_factor   |-> OrDefault(row.ease_factor, 250),
     repetitions   |-> OrDefault(row.repetitions, 0),
     next_due      |-> row.next_due]

\* the DELETE of undo_write without its user_id condition
DeleteEvent_any_user(evs, event_id, user_id) ==
    {e \in evs : e.id # event_id}

\* DELETE FROM review_events WHERE id = %s AND user_id = %s
DeleteEvent(evs, event_id, user_id) ==
    {e \in evs : ~(e.id = event_id /\ e.user_id = user_id)}

\* undo_write without its DELETE statement
undo_write_no_delete(db, us, ds, bound_user_id, user_id, payload, fail) ==
    LET row_exists == payload.card_id \in DOMAIN db.cards
        denied == /\ row_exists
                  /\ check_card_owner(us, ds,
                                      db.cards[payload.card_id].deck_id,
                                      bound_user_id)
        db1 == [db EXCEPT
                  !.cards = UpdateCardSchedule(@, payload.card_id,
                                               payload.previous)]
        restored_card ==
            IF row_exists
            THEN MakeCurrentCard(payload.card_id, db1.cards[payload.card_id])
            ELSE NoCard
    IN  IF fail = "first" \/ denied
        THEN [raised |-> TRUE, db |-> db, result |-> NoCard]
        ELSE IF fail = "second"
        THEN [raised |-> TRUE, db |-> db1, result |-> NoCard]
        ELSE [raised |-> FALSE, db |-> db1, result |-> restored_card]

\* work() of undo_last_rating: restore the card, delete the event, re-read
undo_write(db, us, ds, bound_user_id, user_id, payload, fail) ==
    LET row_exists == payload.card_id \in DOMAIN db.cards
        denied == /\ row_exists
                  /\ check_card_owner(us, ds,
                                      db.cards[payload.card_id].deck_id,
                                      bound_user_id)
        db1 == [db EXCEPT
                  !.cards = UpdateCardSchedule(@, payload.card_id,
                                               payload.previous)]
        db2 == IF payload.event_id # NULL /\ payload.event_id # 0
               THEN [db1 EXCEPT
                       !.events = DeleteEvent(@, payload.event_id, user_id)]
               ELSE db1
        restored_card ==
            IF row_exists
            THEN MakeCurrentCard(payload.card_id, db2.cards[payload.card_id])
            ELSE NoCard
    IN  IF fail = "first" \/ denied
        THEN [raised |-> TRUE, db |-> db, result |-> NoCard]
        ELSE IF fail = "second"
        THEN [raised |-> TRUE, db |-> db1, result |-> NoCard]
        ELSE [raised |-> FALSE, db |-> db2, result |-> restored_card]

\* -------------------------------------------------------------- selection
can_schedule_reviews(owner_id, user) ==
    IF owner_id = NULL THEN FALSE
    ELSE IF user = NoUser THEN FALSE
    ELSE Truthy(user.is_admin) \/ user.id = owner_id

CardsOfDeck(cs, deck_id) == {c \in DOMAIN cs : cs[c].deck_id = deck_id}

\* the due query without its WHERE ... <= CURRENT_DATE condition
DueCards_all(cs, deck_id, day) == CardsOfDeck(cs, deck_id)

DueCards(cs, deck_id, day) ==
    {c \in CardsOfDeck(cs, deck_id) : Coalesce(cs[c].next_due, day) <= day}

\* the random branch drawing only from the due cards
SelectNext_random_due_only(cs, deck_id, can_schedule, day) ==
    {c \in DueCards(cs, deck_id, day) :
        can_schedule =>
            \A o \in DueCards(cs, deck_id, day) :
                Coalesce(cs[c].next_due, day) <= Coalesce(cs[o].next_due, day)}

\* the due query ordered by RANDOM() only
SelectNext_unordered(cs, deck_id, can_schedule, day) ==
    IF can_schedule THEN DueCards(cs, deck_id, day)
    ELSE CardsOfDeck(cs, deck_id)

\* the rows the SELECT ... LIMIT 1 of get_next_card may return
SelectNext(cs, deck_id, can_schedule, day) ==
    IF can_schedule
    THEN {c \in DueCards(cs, deck_id, day) :
            \A o \in DueCards(cs, deck_id, day) :
                Coalesce(cs[c].next_due, day) <= Coalesce(cs[o].next_due, day)}
    ELSE CardsOfDeck(cs, deck_id)

\* the values get_next_card may leave in current_card
get_next_card(cs, deck_id, owner_id, user, day) ==
    LET res == SelectNext(cs, deck_id, can_schedule_reviews(owner_id, user),
                          day)
    IN  IF res = {} THEN {NoCard}
        ELSE {MakeCurrentCard(c, cs[c]) : c \in res}

\* --------------------------------------------------------------- recording
\* the counts with due_count leaving out the cards without a next_due
counts_row_no_coalesce(cs, deck_id, can_schedule, day) ==
    LET deck  == CardsOfDeck(cs, deck_id)
        later == {cs[c].next_due :
                    c \in {d \in deck : cs[d].next_due # NULL
                                          /\ cs[d].next_due > day}}
    IN  IF can_schedule
        THEN [total_count   |-> Cardinality(deck),
              due_count     |-> Cardinality({c \in deck :
                                    cs[c].next_due # NULL
                                      /\ cs[c].next_due <= day}),
              next_due_date |-> IF later = {} THEN NULL
                                ELSE CHOOSE d \in later :
                                        \A o \in later : d <= o]
        ELSE [total_count |-> 0, due_count |-> 0, next_due_date |-> NULL]

\* total_count, due_count and next_due_date of get_next_card: the counts
\* query runs only with scheduling rights, otherwise the initial values stay
counts_row(cs, deck_id, can_schedule, day) ==
    LET deck  == CardsOfDeck(cs, deck_id)
        later == {cs[c].next_due :
                    c \in {d \in deck : cs[d].next_due # NULL
                                          /\ cs[d].next_due > day}}
    IN  IF can_schedule
        THEN [total_count   |-> Cardinality(deck),
              due_count     |-> Cardinality({c \in deck :
                                    Coalesce(cs[c].next_due, day) <= day}),
              next_due_date |-> IF later = {} THEN NULL
                                ELSE CHOOSE d \in later :
                                        \A o \in later : d <= o]
        ELSE [total_count |-> 0, due_count |-> 0, next_due_date |-> NULL]

\* the text get_next_card puts in practice_status
practice_status(cs, deck_id, can_schedule, day) ==
    LET k == counts_row(cs, deck_id, can_schedule, day)
    IN  IF ~can_schedule THEN <<"Random mode (shared deck)", NULL>>
        ELSE IF k.total_count = 0 THEN <<"No cards in this deck.", NULL>>
        ELSE IF k.due_count = 0
             THEN IF k.next_due_date # NULL
                  THEN <<"All caught up. Next due:", k.next_due_date>>
                  ELSE <<"All caught up.", NULL>>
        ELSE <<"Due today:", k.due_count>>

NoRow == LegacyCard(NULL)

\* any handler other than rate_card and undo_last_rating
Idle ==
    [op |-> "", outcome |-> "", card |-> NULL, event_id |-> NULL,
     prev |-> <<"", "">>, before_row |-> NoRow, before_events |-> {}]

\* What the last rate_card / undo_last_rating call did.  A saved rate_card
\* keeps the stored row of the card and the ledger as they were before it;
\* an undo_last_rating keeps the call before it (prev) and, right after a
\* saved rate_card, what that call kept.
Call(op, outcome, card_id, event_id) ==
    LET saved == op = "rate_card" /\ outcome = "saved"
        after_saved == /\ op = "undo_last_rating"
                       /\ lastCall.op = "rate_card"
                       /\ lastCall.outcome = "saved"
    IN  [op |-> op, outcome |-> outcome, card |-> card_id,
         event_id |-> event_id,
         prev |-> IF op = "undo_last_rating"
                  THEN <<lastCall.op, lastCall.outcome>> ELSE <<"", "">>,
         before_row |-> IF saved /\ card_id \in DOMAIN cards
                        THEN cards[card_id]
                        ELSE IF after_saved THEN lastCall.before_row
                        ELSE NoRow,
         before_events |-> IF saved THEN review_events
                           ELSE IF after_saved THEN lastCall.before_events
                           ELSE {}]

\* -------------------------------------------------------------------- Init
\* with the bootstrap admin: admin 1 and user 2; without: users 2 and 3
UsersWithAdmin == (1 :> [is_admin |-> "t"]) @@ (2 :> [is_admin |-> "f"])

UsersWithoutAdmin == (2 :> [is_admin |-> "f"]) @@ (3 :> [is_admin |-> "f"])

InitDecks == (1 :> [owner_id |-> NULL]) @@ (2 :> [owner_id |-> 2])

\* card id -> deck id
InitCardDecks == (1 :> 2) @@ (2 :> 2) @@ (3 :> 1)

\* cards that may predate the schedule columns
LegacyCandidates == {1}

\* The store after the schema setup of main().  The user 'admin' exists or
\* not (INITIAL_ADMIN_PASSWORD); the backfill runs only when it does.
Init ==
    /\ \E admin_exists \in BOOLEAN, legacy \in SUBSET LegacyCandidates :
          LET raw == [c \in DOMAIN InitCardDecks |->
                        IF c \in legacy THEN LegacyCard(InitCardDecks[c])
                        ELSE DefaultCard(InitCardDecks[c], 0)]
          IN  /\ users = IF admin_exists THEN UsersWithAdmin
                         ELSE UsersWithoutAdmin
              /\ cards = IF admin_exists THEN backfill_cards(raw, 0) ELSE raw
    /\ decks = InitDecks
    /\ review_events = {}
    /\ review_events_id_seq = 1
    /\ today = 0
    /\ session_user_id = NULL
    /\ current_user = NoUser
    /\ current_deck_id = NULL
    /\ current_deck_owner_id = NULL
    /\ current_card = NoCard
    /\ is_showing_answer = FALSE
    /\ last_rating_action = NoAction
    /\ practice_view_visible = FALSE
    /\ app_layout_visible = FALSE
    /\ autocommit = TRUE
    /\ txn = NoTxn
    /\ lastCall = Idle


\* ---------------------------------------------------------------- handlers
\* login_async: the session identity is set only when the user row exists
\* and the password matches its hash
Login(username, password_match) ==
    /\ IF username \in DOMAIN users /\ password_match
       THEN /\ current_user' = [id |-> username,
                                is_admin |-> users[username].is_admin]
            /\ app_layout_visible' = TRUE
            /\ session_user_id' = username
            /\ lastCall' = Idle
       ELSE /\ UNCHANGED <<current_user, app_layout_visible, session_user_id>>
            /\ lastCall' = Idle
    /\ UNCHANGED <<storeVars, connVars, today, current_deck_id, current_deck_owner_id,
                   current_card, is_showing_answer, last_rating_action,
                   practice_view_visible>>

Logout ==
    /\ current_user' = NoUser
    /\ app_layout_visible' = FALSE
    /\ session_user_id' = NULL
    /\ lastCall' = Idle
    /\ UNCHANGED <<storeVars, connVars, today, current_deck_id, current_deck_owner_id,
                   current_card, is_showing_answer, last_rating_action,
                   practice_view_visible>>

StartPractice(deck_id) ==
    LET owner_id == IF deck_id \in DOMAIN decks
                    THEN decks[deck_id].owner_id ELSE NULL
    IN  /\ current_deck_id' = deck_id
        /\ current_deck_owner_id' = owner_id
        /\ IF owner_id = NULL
           THEN /\ lastCall' = Idle
                /\ UNCHANGED <<current_card, is_showing_answer,
                               last_rating_action, practice_view_visible>>
           ELSE /\ practice_view_visible' = TRUE
                /\ last_rating_action' = NoAction
                /\ current_card' \in get_next_card(cards, deck_id, owner_id,
                                                   current_user, today)
                /\ is_showing_answer' = FALSE
                /\ lastCall' = Idle
        /\ UNCHANGED <<storeVars, connVars, today, session_user_id, current_user,
                       app_layout_visible>>

StopPractice ==
    /\ practice_view_visible' = FALSE
    /\ last_rating_action' = NoAction
    /\ lastCall' = Idle
    /\ UNCHANGED <<storeVars, connVars, today, session_user_id, current_user,
                   current_deck_id, current_deck_owner_id, current_card,
                   is_showing_answer, app_layout_visible>>

\* the NEXT CARD button
GetNextCard ==
    /\ current_card' \in get_next_card(cards, current_deck_id,
                                       current_deck_owner_id, current_user,
                                       today)
    /\ is_showing_answer' = FALSE
    /\ lastCall' = Idle
    /\ UNCHANGED <<storeVars, connVars, today, session_user_id, current_user,
                   current_deck_id, current_deck_owner_id, last_rating_action,
                   practice_view_visible, app_layout_visible>>

FlipCard ==
    /\ IF current_card # NoCard
       THEN is_showing_answer' = ~is_showing_answer
       ELSE UNCHANGED is_showing_answer
    /\ lastCall' = Idle
    /\ UNCHANGED <<storeVars, connVars, today, session_user_id, current_user,
                   current_deck_id, current_deck_owner_id, current_card,
                   last_rating_action, practice_view_visible,
                   app_layout_visible>>

\* update_schedule handing back the pending undo record when there is one
update_schedule_keeps_pending(grade, fail) ==
    IF current_card = NoCard \/ current_user = NoUser
    THEN [ok |-> FALSE, db |-> Db, undo_payload |-> NoAction]
    ELSE
    LET previous_state ==
            [interval_days |-> current_card.interval_days,
             ease_factor   |-> current_card.ease_factor,
             repetitions   |-> current_card.repetitions,
             next_due      |-> current_card.next_due]
        schedule == calculate_schedule(current_card.interval_days,
                                       current_card.ease_factor,
                                       current_card.repetitions, grade, today)
        w == save_schedule(Db, users, decks, current_user.id, current_user.id,
                           current_card.id, current_deck_id, grade, schedule,
                           today, fail)
        t == run_in_user_transaction(Db, fail, w)
    IN  IF t.raised
        THEN [ok |-> FALSE, db |-> t.db, undo_payload |-> NoAction]
        ELSE [ok |-> TRUE, db |-> t.db,
              undo_payload |->
                  IF last_rating_action # NoAction THEN last_rating_action
                  ELSE [card_id  |-> current_card.id,
                        event_id |-> t.result,
                        previous |-> previous_state]]

\* update_schedule(grade): [ok, db, undo_payload]
update_schedule(grade, fail) ==
    IF current_card = NoCard \/ current_user = NoUser
    THEN [ok |-> FALSE, db |-> Db, undo_payload |-> NoAction]
    ELSE
    LET previous_state ==
            [interval_days |-> current_card.interval_days,
             ease_factor   |-> current_card.ease_factor,
             repetitions   |-> current_card.repetitions,
             next_due      |-> current_card.next_due]
        schedule == calculate_schedule(current_card.interval_days,
                                       current_card.ease_factor,
                                       current_card.repetitions, grade, today)
        w == save_schedule(Db, users, decks, current_user.id, current_user.id,
                           current_card.id, current_deck_id, grade, schedule,
                           today, fail)
        t == run_in_user_transaction(Db, fail, w)
    IN  IF t.raised
        THEN [ok |-> FALSE, db |-> t.db, undo_payload |-> NoAction]
        ELSE [ok |-> TRUE, db |-> t.db,
              undo_payload |-> [card_id  |-> current_card.id,
                                event_id |-> t.result,
                                previous |-> previous_state]]

\* rate_card checking only that a card is presented
rate_card_gate_only_card_check ==
    IF current_card = NoCard THEN "no_card" ELSE "pass"

\* rate_card without the "Flip the card to rate" check
rate_card_gate_no_flip_check ==
    IF current_card = NoCard THEN "no_card"
    ELSE IF current_deck_owner_id = NULL THEN "shared_deck"
    ELSE IF current_user = NoUser THEN "login_required"
    ELSE IF ~(Truthy(current_user.is_admin)
              \/ current_user.id = current_deck_owner_id) THEN "not_owner"
    ELSE "pass"

\* rate_card with the owner comparison inverted
rate_card_gate_wrong_owner_test ==
    IF current_card = NoCard THEN "no_card"
    ELSE IF ~is_showing_answer THEN "flip_first"
    ELSE IF current_deck_owner_id = NULL THEN "shared_deck"
    ELSE IF current_user = NoUser THEN "login_required"
    ELSE IF ~(Truthy(current_user.is_admin)
              \/ current_user.id # current_deck_owner_id) THEN "not_owner"
    ELSE "pass"

\* rate_card without its shared-deck and ownership checks
rate_card_gate_no_auth ==
    IF current_card = NoCard THEN "no_card"
    ELSE IF ~is_showing_answer THEN "flip_first"
    ELSE IF current_user = NoUser THEN "login_required"
    ELSE "pass"

\* rate_card letting an admin rate the cards of a shared deck
rate_card_gate_admin_on_shared ==
    IF current_card = NoCard THEN "no_card"
    ELSE IF ~is_showing_answer THEN "flip_first"
    ELSE IF current_deck_owner_id = NULL
            /\ ~Truthy(current_user.is_admin) THEN "shared_deck"
    ELSE IF current_user = NoUser THEN "login_required"
    ELSE IF ~(Truthy(current_user.is_admin)
              \/ current_user.id = current_deck_owner_id) THEN "not_owner"
    ELSE "pass"

\* the outcome of rate_card's checks, in the order of the code
rate_card_gate ==
    IF current_card = NoCard THEN "no_card"
    ELSE IF ~is_showing_answer THEN "flip_first"
    ELSE IF current_deck_owner_id = NULL THEN "shared_deck"
    ELSE IF current_user = NoUser THEN "login_required"
    ELSE IF ~(Truthy(current_user.is_admin)
              \/ current_user.id = current_deck_owner_id) THEN "not_owner"
    ELSE "pass"

\* rate_card emptying the pending undo record when the saving fails
rate_card_failure_clears_pending(grade) ==
    /\ IF rate_card_gate # "pass"
       THEN /\ lastCall' = Call("rate_card", rate_card_gate, current_card.id,
                                NULL)
            /\ UNCHANGED <<cards, review_events, review_events_id_seq,
                           last_rating_action, current_card,
                           is_showing_answer>>
       ELSE \E fail \in FailPoints :
            LET r == update_schedule(grade, fail)
            IN  /\ cards' = r.db.cards
                /\ review_events' = r.db.events
                /\ review_events_id_seq' = r.db.seq
                /\ IF r.ok
                   THEN /\ last_rating_action' = r.undo_payload
                        /\ current_card' \in
                              get_next_card(cards', current_deck_id,
                                            current_deck_owner_id,
                                            current_user, today)
                        /\ is_showing_answer' = FALSE
                        /\ lastCall' = Call("rate_card", "saved",
                                            current_card.id,
                                            r.undo_payload.event_id)
                   ELSE /\ lastCall' =
                              Call("rate_card",
                                   IF fail = "none" THEN "store_rejected"
                                   ELSE "save_failed",
                                   current_card.id, NULL)
                        /\ last_rating_action' = NoAction
                        /\ UNCHANGED <<current_card, is_showing_answer>>
    /\ UNCHANGED <<users, decks, connVars, today, session_user_id, current_user,
                   current_deck_id, current_deck_owner_id,
                   practice_view_visible, app_layout_visible>>

\* rate_card(grade): the handler of the four rating buttons
rate_card(grade) ==
    /\ IF rate_card_gate # "pass"
       THEN /\ lastCall' = Call("rate_card", rate_card_gate, current_card.id,
                                NULL)
            /\ UNCHANGED <<cards, review_events, review_events_id_seq,
                           last_rating_action, current_card,
                           is_showing_answer>>
       ELSE \E fail \in FailPoints :
            LET r == update_schedule(grade, fail)
            IN  /\ cards' = r.db.cards
                /\ review_events' = r.db.events
                /\ review_events_id_seq' = r.db.seq
                /\ IF r.ok
                   THEN /\ last_rating_action' = r.undo_payload
                        /\ current_card' \in
                              get_next_card(cards', current_deck_id,
                                            current_deck_owner_id,
                                            current_user, today)
                        /\ is_showing_answer' = FALSE
                        /\ lastCall' = Call("rate_card", "saved",
                                            current_card.id,
                                            r.undo_payload.event_id)
                   ELSE /\ lastCall' =
                              Call("rate_card",
                                   IF fail = "none" THEN "store_rejected"
                                   ELSE "save_failed",
                                   current_card.id, NULL)
                        /\ UNCHANGED <<last_rating_action, current_card,
                                       is_showing_answer>>
    /\ UNCHANGED <<users, decks, connVars, today, session_user_id, current_user,
                   current_deck_id, current_deck_owner_id,
                   practice_view_visible, app_layout_visible>>

\* a rating button pressed, while the ledger of the model has room
RateCard(grade) ==
    /\ review_events_id_seq <= MaxEvents
    /\ rate_card(grade)

\* undo_last_rating without the "No rating to undo" check
undo_gate_no_pending_check ==
    IF current_user = NoUser THEN "login_required" ELSE "pass"

\* the outcome of undo_last_rating's checks, in the order of the code
undo_gate ==
    IF last_rating_action = NoAction THEN "nothing"
    ELSE IF current_user = NoUser THEN "login_required"
    ELSE "pass"

\* undo_last_rating leaving the presented card and its side as they are
UndoLastRating_keeps_presented_card ==
    /\ IF undo_gate # "pass"
       THEN /\ lastCall' = Call("undo_last_rating", undo_gate,
                                last_rating_action.card_id,
                                last_rating_action.event_id)
            /\ UNCHANGED <<cards, review_events, review_events_id_seq,
                           last_rating_action, current_card,
                           is_showing_answer>>
       ELSE \E fail \in FailPoints :
            LET payload == last_rating_action
                w == undo_write(Db, users, decks, current_user.id,
                                current_user.id, payload, fail)
                t == run_in_user_transaction(Db, fail, w)
            IN  /\ cards' = t.db.cards
                /\ review_events' = t.db.events
                /\ review_events_id_seq' = t.db.seq
                /\ IF t.raised
                   THEN /\ lastCall' = Call("undo_last_rating", "failed",
                                            payload.card_id, payload.event_id)
                        /\ UNCHANGED <<last_rating_action, current_card,
                                       is_showing_answer>>
                   ELSE /\ last_rating_action' = NoAction
                        /\ lastCall' = Call("undo_last_rating", "undone",
                                            payload.card_id, payload.event_id)
                        /\ UNCHANGED <<current_card, is_showing_answer>>
    /\ UNCHANGED <<users, decks, connVars, today, session_user_id, current_user,
                   current_deck_id, current_deck_owner_id,
                   practice_view_visible, app_layout_visible>>

UndoLastRating ==
    /\ IF undo_gate # "pass"
       THEN /\ lastCall' = Call("undo_last_rating", undo_gate,
                                last_rating_action.card_id,
                                last_rating_action.event_id)
            /\ UNCHANGED <<cards, review_events, review_events_id_seq,
                           last_rating_action, current_card,
                           is_showing_answer>>
       ELSE \E fail \in FailPoints :
            LET payload == last_rating_action
                w == undo_write(Db, users, decks, current_user.id,
                                current_user.id, payload, fail)
                t == run_in_user_transaction(Db, fail, w)
            IN  /\ cards' = t.db.cards
                /\ review_events' = t.db.events
                /\ review_events_id_seq' = t.db.seq
                /\ IF t.raised
                   THEN /\ lastCall' = Call("undo_last_rating", "failed",
                                            payload.card_id, payload.event_id)
                        /\ UNCHANGED <<last_rating_action, current_card,
                                       is_showing_answer>>
                   ELSE /\ last_rating_action' = NoAction
                        /\ lastCall' = Call("undo_last_rating", "undone",
                                            payload.card_id, payload.event_id)
                        /\ is_showing_answer' = FALSE
                        /\ IF t.result # NoCard
                           THEN current_card' = t.result
                           ELSE current_card' \in
                                  get_next_card(cards', current_deck_id,
                                                current_deck_owner_id,
                                                current_user, today)
    /\ UNCHANGED <<users, decks, connVars, today, session_user_id, current_user,
                   current_deck_id, current_deck_owner_id,
                   practice_view_visible, app_layout_visible>>

UserNames == DOMAIN UsersWithAdmin \cup DOMAIN UsersWithoutAdmin

DeckIds == DOMAIN InitDecks

Next ==
    \/ \E u \in UserNames, m \in BOOLEAN : Login(u, m)
    \/ Logout
    \/ \E d \in DeckIds : StartPractice(d)
    \/ StopPractice
    \/ GetNextCard
    \/ FlipCard
    \/ \E g \in Grades : RateCard(g)
    \/ UndoLastRating

Spec == Init /\ [][Next]_vars


\* ------------------------------------------- the trigger at the boundary
\* A statement sent to the store directly, under any value of the setting
\* app.current_user_id: not set, or set to a text ('' after logout, str(id)
\* after login).
\* text::integer for the texts of the model; NULL where the cast raises
IntegerOf ==
    ("1" :> 1) @@ ("2" :> 2) @@ ("3" :> 3) @@ ("4" :> 4) @@ ("5" :> 5)

\* current_setting('app.current_user_id')::integer, NULL when it raises
current_setting_integer(setting) ==
    IF ~setting.is_set THEN NULL
    ELSE IF setting.text \in DOMAIN IntegerOf THEN IntegerOf[setting.text]
    ELSE NULL

\* users 1 (admin), 2 and 3 (no admins), 4 (is_admin NULL); 5 has no row
TriggerUsers ==
    (1 :> [is_admin |-> "t"]) @@ (2 :> [is_admin |-> "f"])
      @@ (3 :> [is_admin |-> "f"]) @@ (4 :> [is_admin |-> "null"])

Settings ==
    {[is_set |-> FALSE, text |-> ""]}
      \cup {[is_set |-> TRUE, text |-> t] : t \in {""} \cup DOMAIN IntegerOf}

NewCardId == 4

InitTrigger ==
    /\ users = TriggerUsers
    /\ decks = InitDecks
    /\ cards = [c \in DOMAIN InitCardDecks |-> DefaultCard(InitCardDecks[c], 0)]
    /\ review_events = {}
    /\ review_events_id_seq = 1
    /\ today = 0
    /\ session_user_id = NULL
    /\ current_user = NoUser
    /\ current_deck_id = NULL
    /\ current_deck_owner_id = NULL
    /\ current_card = NoCard
    /\ is_showing_answer = FALSE
    /\ last_rating_action = NoAction
    /\ practice_view_visible = FALSE
    /\ app_layout_visible = FALSE
    /\ autocommit = TRUE
    /\ txn = NoTxn
    /\ lastCall = Idle

\* the record of a statement on cards: the setting it ran under, the deck of
\* the NEW row and whether the trigger let it through
CardWrite(stmt, setting, deck_id, denied) ==
    [op |-> stmt, outcome |-> IF denied THEN "denied" ELSE "written",
     setting |-> setting, deck |-> deck_id]

\* UPDATE cards SET <schedule of a 'good' grading> WHERE id = card_id
UpdateCard(setting, card_id) ==
    LET bound_user_id == current_setting_integer(setting)
        row == cards[card_id]
        denied == check_card_owner(users, decks, row.deck_id, bound_user_id)
        schedule == calculate_schedule(OrDefault(row.interval_days, 1),
                                       OrDefault(row.ease_factor, 250),
                                       OrDefault(row.repetitions, 0),
                                       "good", today)
    IN  /\ card_id \in DOMAIN cards
        /\ row.repetitions = 0
        /\ session_user_id' = bound_user_id
        /\ cards' = IF denied THEN cards
                    ELSE UpdateCardSchedule(cards, card_id, schedule)
        /\ lastCall' = CardWrite("update", setting, row.deck_id, denied)
        /\ UNCHANGED <<users, decks, review_events, review_events_id_seq,
                       connVars, today, current_user, current_deck_id,
                       current_deck_owner_id, current_card, is_showing_answer,
                       last_rating_action, practice_view_visible,
                       app_layout_visible>>

\* INSERT INTO cards (deck_id, ...) VALUES (deck_id, ...)
InsertCard(setting, deck_id) ==
    LET bound_user_id == current_setting_integer(setting)
        denied == check_card_owner(users, decks, deck_id, bound_user_id)
    IN  /\ NewCardId \notin DOMAIN cards
        /\ session_user_id' = bound_user_id
        /\ cards' = IF denied THEN cards
                    ELSE cards @@ (NewCardId :> DefaultCard(deck_id, today))
        /\ lastCall' = CardWrite("insert", setting, deck_id, denied)
        /\ UNCHANGED <<users, decks, review_events, review_events_id_seq,
                       connVars, today, current_user, current_deck_id,
                       current_deck_owner_id, current_card, is_showing_answer,
                       last_rating_action, practice_view_visible,
                       app_layout_visible>>

NextTrigger ==
    \/ \E setting \in Settings, c \in DOMAIN InitCardDecks :
          UpdateCard(setting, c)
    \/ \E setting \in Settings, d \in DeckIds : InsertCard(setting, d)

SpecTrigger == InitTrigger /\ [][NextTrigger]_vars

\* ------------------------------- run_in_user_transaction, step by step
\* The identity a statement sees: the transaction-local value of
\* app.current_user_id while there is one, else the session-level value.
EffectiveUserId ==
    IF txn.local_user_id # NULL THEN txn.local_user_id ELSE session_user_id

TxUserIds == 1..3

txUnchanged ==
    <<storeVars, today, session_user_id, current_user, current_deck_id,
      current_deck_owner_id, current_card, is_showing_answer,
      last_rating_action, practice_view_visible, app_layout_visible, lastCall>>

\* prev_autocommit = conn.autocommit; conn.autocommit = False
TxCall(user_id) ==
    /\ txn.pc = "idle"
    /\ txn' = [pc |-> "set_config", user_id |-> user_id,
               prev_autocommit |-> autocommit, local_user_id |-> NULL,
               before |-> EffectiveUserId, seen |-> NULL, outcome |-> ""]
    /\ autocommit' = FALSE
    /\ UNCHANGED txUnchanged

\* SELECT set_config('app.current_user_id', str(user_id), true)
TxSetConfig(raises) ==
    /\ txn.pc = "set_config"
    /\ txn' = IF raises THEN [txn EXCEPT !.pc = "except"]
              ELSE [txn EXCEPT !.pc = "work", !.local_user_id = txn.user_id]
    /\ UNCHANGED <<autocommit, txUnchanged>>

\* result = work(): its statements run under the identity in effect
TxWork(raises) ==
    /\ txn.pc = "work"
    /\ txn' = [txn EXCEPT !.pc = IF raises THEN "except" ELSE "commit",
                          !.seen = EffectiveUserId]
    /\ UNCHANGED <<autocommit, txUnchanged>>

\* conn.commit(); return result
TxCommit(raises) ==
    /\ txn.pc = "commit"
    /\ txn' = IF raises THEN [txn EXCEPT !.pc = "except"]
              ELSE [txn EXCEPT !.pc = "finally", !.local_user_id = NULL,
                               !.outcome = "returned"]
    /\ UNCHANGED <<autocommit, txUnchanged>>

\* the except branch without conn.rollback()
TxExcept_no_rollback ==
    /\ txn.pc = "except"
    /\ txn' = [txn EXCEPT !.pc = "finally", !.outcome = "raised"]
    /\ UNCHANGED <<autocommit, txUnchanged>>

\* except Exception: conn.rollback(); raise
TxExcept ==
    /\ txn.pc = "except"
    /\ txn' = [txn EXCEPT !.pc = "finally", !.local_user_id = NULL,
                          !.outcome = "raised"]
    /\ UNCHANGED <<autocommit, txUnchanged>>

\* finally: conn.autocommit = prev_autocommit
TxFinally ==
    /\ txn.pc = "finally"
    /\ autocommit' = txn.prev_autocommit
    /\ txn' = [txn EXCEPT !.pc = "idle"]
    /\ UNCHANGED txUnchanged

\* between two calls the session logs in or out (session-level set_config)
TxLogin(username) ==
    /\ txn.pc = "idle"
    /\ Login(username, TRUE)

TxLogout ==
    /\ txn.pc = "idle"
    /\ Logout

NextTx ==
    \/ \E u \in TxUserIds : TxCall(u)
    \/ \E raises \in BOOLEAN : TxSetConfig(raises)
    \/ \E raises \in BOOLEAN : TxWork(raises)
    \/ \E raises \in BOOLEAN : TxCommit(raises)
    \/ TxExcept
    \/ TxFinally
    \/ \E u \in UserNames : TxLogin(u)
    \/ TxLogout

SpecTx == Init /\ [][NextTx]_vars

\* ------------------------------------------- calculate_schedule, applied
\* grade tokens handed to calculate_schedule: the four grades and others
GradeInputs == Grades \cup {"unknown", ""}

EaseInputs == {e \in 0..MaxEase : e % 5 = 0}

NoSchedule ==
    [interval_days |-> NULL, ease_factor |-> NULL, repetitions |-> NULL,
     next_due |-> NULL]

\* one call calculate_schedule(interval_days, ease_factor, repetitions,
\* grade, today) on a state as it may be stored, hand-edited values included
InitSchedule ==
    /\ users = UsersWithAdmin
    /\ decks = InitDecks
    /\ cards = [c \in DOMAIN InitCardDecks |-> DefaultCard(InitCardDecks[c], 0)]
    /\ review_events = {}
    /\ review_events_id_seq = 1
    /\ today \in 0..1
    /\ session_user_id = NULL
    /\ current_user = NoUser
    /\ current_deck_id = NULL
    /\ current_deck_owner_id = NULL
    /\ current_card = NoCard
    /\ is_showing_answer = FALSE
    /\ last_rating_action = NoAction
    /\ practice_view_visible = FALSE
    /\ app_layout_visible = FALSE
    /\ autocommit = TRUE
    /\ txn = NoTxn
    /\ \E i \in 0..MaxInterval, e \in EaseInputs, r \in 0..MaxReps,
          g \in GradeInputs :
          lastCall = [op |-> "", interval_days |-> i, ease_factor |-> e,
                      repetitions |-> r, grade |-> g, result |-> NoSchedule]

Calculate ==
    /\ lastCall.op = ""
    /\ lastCall' =
          [lastCall EXCEPT
             !.op = "calculate_schedule",
             !.result = calculate_schedule(lastCall.interval_days,
                                           lastCall.ease_factor,
                                           lastCall.repetitions,
                                           lastCall.grade, today)]
    /\ UNCHANGED <<storeVars, connVars, today, session_user_id, current_user,
                   current_deck_id, current_deck_owner_id, current_card,
                   is_showing_answer, last_rating_action,
                   practice_view_visible, app_layout_visible>>

NextSchedule == Calculate

SpecSchedule == InitSchedule /\ [][NextSchedule]_vars

\* ----------------------------------------------- reviews over the days
\* One owner practising a deck of one card while the days pass.
ReviewCardDecks == (1 :> 2) @@ (2 :> 1) @@ (3 :> 1)

InitReview ==
    /\ users = UsersWithAdmin
    /\ decks = InitDecks
    /\ cards = [c \in DOMAIN ReviewCardDecks |->
                  DefaultCard(ReviewCardDecks[c], 0)]
    /\ review_events = {}
    /\ review_events_id_seq = 1
    /\ today = 0
    /\ session_user_id = NULL
    /\ current_user = NoUser
    /\ current_deck_id = NULL
    /\ current_deck_owner_id = NULL
    /\ current_card = NoCard
    /\ is_showing_answer = FALSE
    /\ last_rating_action = NoAction
    /\ practice_view_visible = FALSE
    /\ app_layout_visible = FALSE
    /\ autocommit = TRUE
    /\ txn = NoTxn
    /\ lastCall = Idle

\* midnight: CURRENT_DATE and date.today() move on
NextDay ==
    /\ today < MaxDay
    /\ today' = today + 1
    /\ lastCall' = Idle
    /\ UNCHANGED <<storeVars, connVars, session_user_id, current_user,
                   current_deck_id, current_deck_owner_id, current_card,
                   is_showing_answer, last_rating_action,
                   practice_view_visible, app_layout_visible>>

ReviewRate(grade) ==
    /\ review_events_id_seq <= MaxReviews
    /\ rate_card(grade)

NextReview ==
    \/ Login(2, TRUE)
    \/ StartPractice(2)
    \/ GetNextCard
    \/ FlipCard
    \/ \E g \in Grades : ReviewRate(g)
    \/ NextDay

SpecReview == InitReview /\ [][NextReview]_vars

\* ------------------------------------------------- selection of the card
\* A deck of three cards whose next_due is unset, in the past, today or in
\* the future, practised by its owner, by an admin or without rights.
SelectCardDecks == (1 :> 2) @@ (2 :> 2) @@ (3 :> 2)

SelectToday == 1

DueDates == {NULL} \cup 0..(SelectToday + 1)

InitSelect ==
    /\ users = UsersWithAdmin
    /\ decks = InitDecks
    /\ \E due \in [DOMAIN SelectCardDecks -> DueDates] :
          cards = [c \in DOMAIN SelectCardDecks |->
                     [DefaultCard(SelectCardDecks[c], SelectToday)
                        EXCEPT !.next_due = due[c]]]
    /\ review_events = {}
    /\ review_events_id_seq = 1
    /\ today = SelectToday
    /\ session_user_id = NULL
    /\ current_user = NoUser
    /\ current_deck_id = NULL
    /\ current_deck_owner_id = NULL
    /\ current_card = NoCard
    /\ is_showing_answer = FALSE
    /\ last_rating_action = NoAction
    /\ practice_view_visible = FALSE
    /\ app_layout_visible = FALSE
    /\ autocommit = TRUE
    /\ txn = NoTxn
    /\ lastCall = Idle

NextSelect ==
    \/ \E u \in UserNames : Login(u, TRUE)
    \/ Logout
    \/ \E d \in DeckIds : StartPractice(d)
    \/ GetNextCard

SpecSelect == InitSelect /\ [][NextSelect]_vars

\* ------------------------------------------------- deck and user deletion
\* ON DELETE CASCADE of review_events.card_id and review_events.deck_id:
\* the ledger rows that survive the removal of the cards gone and deck_ids
CascadeEvents(evs, gone, deck_ids) ==
    {ev \in evs : ev.card_id \notin gone /\ ev.deck_id \notin deck_ids}

\* f without the keys in gone
Without(f, gone) == [k \in DOMAIN f \ gone |-> f[k]]

\* the checks of on_delete_click, in the order of the code
delete_gate(deck_id) ==
    LET owner == IF deck_id \in DOMAIN decks
                 THEN decks[deck_id].owner_id ELSE NULL
    IN  IF current_user = NoUser THEN "login_required"
        ELSE IF owner = NULL /\ ~Truthy(current_user.is_admin)
        THEN "admins_only"
        ELSE IF owner # NULL /\ owner # current_user.id
                /\ ~Truthy(current_user.is_admin) THEN "no_permission"
        ELSE "pass"

\* the delete button of a deck followed by do_delete: DELETE FROM cards WHERE
\* deck_id = ..., then DELETE FROM decks WHERE id = ..., each its own
\* autocommit statement
DeleteDeck(deck_id) ==
    LET gone == CardsOfDeck(cards, deck_id)
    IN  /\ IF delete_gate(deck_id) = "pass"
           THEN /\ cards' = Without(cards, gone)
                /\ decks' = Without(decks, {deck_id})
                /\ review_events' = CascadeEvents(review_events, gone,
                                                  {deck_id})
           ELSE UNCHANGED <<cards, decks, review_events>>
        /\ lastCall' = Idle
        /\ UNCHANGED <<users, review_events_id_seq, connVars, today,
                       session_user_id, current_user, current_deck_id,
                       current_deck_owner_id, current_card, is_showing_answer,
                       last_rating_action, practice_view_visible,
                       app_layout_visible>>

\* show_delete_user_confirm checking only that the session is an admin
delete_user_gate_admin_only(user_id) ==
    IF current_user = NoUser \/ ~Truthy(current_user.is_admin)
    THEN "access_denied"
    ELSE "pass"

\* the checks of show_delete_user_confirm, in the order of the code
delete_user_gate(user_id) ==
    IF current_user = NoUser \/ ~Truthy(current_user.is_admin)
    THEN "access_denied"
    ELSE IF user_id \in DOMAIN users /\ Truthy(users[user_id].is_admin)
    THEN "admin_account"
    ELSE IF current_user.id = user_id THEN "own_account"
    ELSE "pass"

\* show_delete_user_confirm followed by its do_delete: the decks of the user
\* and their cards go, then DELETE FROM users, which the foreign key
\* review_events.user_id refuses while the user still has ledger rows
DeleteUser(user_id) ==
    LET deck_ids == {d \in DOMAIN decks : decks[d].owner_id = user_id}
        gone     == {c \in DOMAIN cards : cards[c].deck_id \in deck_ids}
        evs      == CascadeEvents(review_events, gone, deck_ids)
    IN  /\ IF delete_user_gate(user_id) = "pass"
           THEN /\ cards' = Without(cards, gone)
                /\ decks' = Without(decks, deck_ids)
                /\ review_events' = evs
                /\ users' = IF \E ev \in evs : ev.user_id = user_id
                            THEN users ELSE Without(users, {user_id})
           ELSE UNCHANGED <<users, cards, decks, review_events>>
        /\ lastCall' = Idle
        /\ UNCHANGED <<review_events_id_seq, connVars, today, session_user_id,
                       current_user, current_deck_id, current_deck_owner_id,
                       current_card, is_showing_answer, last_rating_action,
                       practice_view_visible, app_layout_visible>>

\* the grades pressed under NextLedger
LedgerGrades == {"again", "good"}

\* the session with an admin, one owner and the owner's deck of two cards
InitLedger ==
    /\ users = UsersWithAdmin
    /\ decks = InitDecks
    /\ cards = [c \in DOMAIN InitCardDecks |->
                    DefaultCard(InitCardDecks[c], 0)]
    /\ review_events = {}
    /\ review_events_id_seq = 1
    /\ today = 0
    /\ session_user_id = NULL
    /\ current_user = NoUser
    /\ current_deck_id = NULL
    /\ current_deck_owner_id = NULL
    /\ current_card = NoCard
    /\ is_showing_answer = FALSE
    /\ last_rating_action = NoAction
    /\ practice_view_visible = FALSE
    /\ app_layout_visible = FALSE
    /\ autocommit = TRUE
    /\ txn = NoTxn
    /\ lastCall = Idle

NextLedger ==
    \/ \E u \in DOMAIN UsersWithAdmin : Login(u, TRUE)
    \/ \E d \in DeckIds : StartPractice(d)
    \/ GetNextCard
    \/ FlipCard
    \/ \E g \in LedgerGrades : RateCard(g)
    \/ UndoLastRating
    \/ \E d \in DeckIds : DeleteDeck(d)
    \/ \E u \in DOMAIN UsersWithAdmin : DeleteUser(u)

SpecLedger == InitLedger /\ [][NextLedger]_vars

\* ------------------------------------------- two sessions grading one card
\* Two running instances of the program, each with its own connection, have
\* been presented the same card and both press a rating button.  txn holds,
\* per session, how far its update_schedule has come; lastCall is the list
\* of the commits in their order.
Sessions == {1, 2}

\* session 1 is the owner of the deck, session 2 an admin
SessionUser == (1 :> 2) @@ (2 :> 1)

SharedCardId == 1

\* the stored rows the card may have when it is presented
SnapshotRows ==
    {[deck_id |-> 2, interval_days |-> i, ease_factor |-> e,
      repetitions |-> r, next_due |-> 0] :
        i \in {1, 6}, e \in {130, 250}, r \in {0, 2}}

Presented ==
    [pc |-> "presented", grade |-> "", schedule |-> ScheduleOf(NoRow),
     event_id |-> NULL, undo_payload |-> NoAction]

InitConcurrent ==
    /\ users = UsersWithAdmin
    /\ decks = InitDecks
    /\ \E row \in SnapshotRows : cards = (SharedCardId :> row)
    /\ review_events = {}
    /\ review_events_id_seq = 1
    /\ today = 0
    /\ session_user_id = NULL
    /\ current_user = NoUser
    /\ current_deck_id = 2
    /\ current_deck_owner_id = 2
    /\ current_card = MakeCurrentCard(SharedCardId, cards[SharedCardId])
    /\ is_showing_answer = TRUE
    /\ last_rating_action = NoAction
    /\ practice_view_visible = TRUE
    /\ app_layout_visible = TRUE
    /\ autocommit = TRUE
    /\ txn = [s \in Sessions |-> Presented]
    /\ lastCall = <<>>

concUnchanged ==
    UNCHANGED <<users, decks, today, session_user_id, current_user,
                current_deck_id, current_deck_owner_id, current_card,
                is_showing_answer, last_rating_action, practice_view_visible,
                app_layout_visible, autocommit>>

\* the session holds the row lock of its uncommitted UPDATE
HoldsRowLock(s) == txn[s].pc \in {"updated", "inserted"}

\* the first writer's row kept when a second UPDATE arrives
ConcApply_first_writer_wins(cs, s) ==
    IF ScheduleOf(cs[SharedCardId]) # ScheduleOf(current_card)
    THEN cs
    ELSE UpdateCardSchedule(cs, SharedCardId, txn[s].schedule)

\* the UPDATE cards of the session as it becomes visible at its commit
ConcApply(cs, s) == UpdateCardSchedule(cs, SharedCardId, txn[s].schedule)

\* update_schedule up to the call of run_in_user_transaction: the new
\* schedule is computed from the session's current_card
ConcCalculate(s, grade) ==
    /\ txn[s].pc = "presented"
    /\ txn' = [txn EXCEPT ![s] =
                 [@ EXCEPT !.pc = "begun", !.grade = grade,
                           !.schedule =
                               calculate_schedule(current_card.interval_days,
                                                  current_card.ease_factor,
                                                  current_card.repetitions,
                                                  grade, today)]]
    /\ UNCHANGED <<cards, review_events, review_events_id_seq, lastCall>>
    /\ concUnchanged

\* UPDATE cards ... WHERE id: waits while the other session holds the row
\* lock; the trigger checks the bound user against the deck owner
ConcUpdate(s) ==
    /\ txn[s].pc = "begun"
    /\ \A o \in Sessions \ {s} : ~HoldsRowLock(o)
    /\ txn' = [txn EXCEPT ![s].pc =
                 IF check_card_owner(users, decks,
                                     cards[SharedCardId].deck_id,
                                     SessionUser[s])
                 THEN "rolled_back" ELSE "updated"]
    /\ UNCHANGED <<cards, review_events, review_events_id_seq, lastCall>>
    /\ concUnchanged

\* INSERT INTO review_events ... RETURNING id
ConcInsert(s) ==
    /\ txn[s].pc = "updated"
    /\ txn' = [txn EXCEPT ![s].pc = "inserted",
                          ![s].event_id = review_events_id_seq]
    /\ review_events_id_seq' = review_events_id_seq + 1
    /\ UNCHANGED <<cards, review_events, lastCall>>
    /\ concUnchanged

\* conn.commit(), then the session's pending undo record is set
ConcCommit(s) ==
    /\ txn[s].pc = "inserted"
    /\ cards' = ConcApply(cards, s)
    /\ review_events' = review_events \cup
          {[id |-> txn[s].event_id, user_id |-> SessionUser[s],
            card_id |-> SharedCardId, deck_id |-> current_deck_id,
            grade |-> txn[s].grade]}
    /\ txn' = [txn EXCEPT ![s].pc = "committed",
                          ![s].undo_payload =
                              [card_id  |-> SharedCardId,
                               event_id |-> txn[s].event_id,
                               previous |->
                                  [interval_days |-> current_card.interval_days,
                                   ease_factor   |-> current_card.ease_factor,
                                   repetitions   |-> current_card.repetitions,
                                   next_due      |-> current_card.next_due]]]
    /\ lastCall' = Append(lastCall, [session |-> s, grade |-> txn[s].grade])
    /\ UNCHANGED review_events_id_seq
    /\ concUnchanged

NextConcurrent ==
    \E s \in Sessions :
        \/ \E g \in Grades : ConcCalculate(s, g)
        \/ ConcUpdate(s)
        \/ ConcInsert(s)
        \/ ConcCommit(s)

SpecConcurrent == InitConcurrent /\ [][NextConcurrent]_vars

\* ---------------------------------------------------------- creating cards
MaxCards == 6

MaxDecks == 4

MaxCreateDay == 2

\* the deck named 'Standard German Start'
StandardDeckId == 3

\* the words of the standard deck (two stand for the eight of the code)
StandardWords == 2

\* rows a CSV file may add after the duplicates of the deck are skipped
ImportRows == 1..2

MaxOf(S) == CHOOSE x \in S : \A y \in S : y <= x

NewIds(used, n) == (MaxOf(used \cup {0}) + 1)..(MaxOf(used \cup {0}) + n)

NewDeckId(ds) == MaxOf(DOMAIN ds \cup {StandardDeckId}) + 1

\* INSERT INTO cards (deck_id, front, back): the schedule columns take the
\* defaults of the schema, n rows
insert_cards(cs, deck_id, n, day) ==
    [c \in DOMAIN cs \cup NewIds(DOMAIN cs, n) |->
        IF c \in DOMAIN cs THEN cs[c] ELSE DefaultCard(deck_id, day)]

\* the copy taking over the schedule columns of the source rows
copy_cards_inherit(cs, new_deck_id, shared_deck_id, day) ==
    LET src == CardsOfDeck(cs, shared_deck_id)
        ids == NewIds(DOMAIN cs, Cardinality(src))
        of  == CHOOSE f \in [ids -> src] : \A a, b \in ids : a # b => f[a] # f[b]
    IN  [c \in DOMAIN cs \cup ids |->
            IF c \in DOMAIN cs THEN cs[c]
            ELSE [cs[of[c]] EXCEPT !.deck_id = new_deck_id]]

\* INSERT INTO cards (...) SELECT new_deck_id, front, back,
\* COALESCE(level, 0), 1, 2.5, 0, CURRENT_DATE FROM cards WHERE deck_id = ...
copy_cards(cs, new_deck_id, shared_deck_id, day) ==
    LET src == CardsOfDeck(cs, shared_deck_id)
        ids == NewIds(DOMAIN cs, Cardinality(src))
    IN  [c \in DOMAIN cs \cup ids |->
            IF c \in DOMAIN cs THEN cs[c]
            ELSE [deck_id |-> new_deck_id, interval_days |-> 1,
                  ease_factor |-> 250, repetitions |-> 0, next_due |-> day]]

\* what the last card-creating call did
Created(op, outcome, deck_id, ids) ==
    [op |-> op, outcome |-> outcome, deck_id |-> deck_id, created |-> ids]

createUnchanged ==
    UNCHANGED <<users, review_events, review_events_id_seq, connVars, today,
                session_user_id, current_user, current_deck_id,
                current_deck_owner_id, current_card, is_showing_answer,
                last_rating_action, practice_view_visible,
                app_layout_visible>>

\* add_card_write without its two ownership checks, the trigger left to decide
add_card_gate_trigger_only(deck_id) ==
    IF current_user = NoUser THEN "login_required"
    ELSE IF deck_id \notin DOMAIN decks THEN "deck_not_found"
    ELSE "pass"

\* the checks of add_card_to_deck and add_card_write, in the order of the code
add_card_gate(deck_id) ==
    IF current_user = NoUser THEN "login_required"
    ELSE IF deck_id \notin DOMAIN decks THEN "deck_not_found"
    ELSE IF decks[deck_id].owner_id = NULL THEN "shared_deck"
    ELSE IF decks[deck_id].owner_id # current_user.id THEN "not_owner"
    ELSE "pass"

\* add_card_to_deck with both text fields filled and a deck chosen
AddCardToDeck(deck_id) ==
    /\ Cardinality(DOMAIN cards) < MaxCards
    /\ IF add_card_gate(deck_id) # "pass"
       THEN /\ lastCall' = Created("add_card_to_deck", add_card_gate(deck_id),
                                   deck_id, {})
            /\ UNCHANGED cards
       ELSE \E fail \in FailPoints :
            LET denied == check_card_owner(users, decks, deck_id,
                                           current_user.id)
                w == IF fail \in {"first", "second"} \/ denied
                     THEN [raised |-> TRUE, db |-> Db, result |-> NULL]
                     ELSE [raised |-> FALSE,
                           db |-> [Db EXCEPT
                                     !.cards = insert_cards(@, deck_id, 1,
                                                            today)],
                           result |-> NULL]
                t == run_in_user_transaction(Db, fail, w)
            IN  /\ cards' = t.db.cards
                /\ lastCall' =
                      Created("add_card_to_deck",
                              IF t.raised THEN "could_not_save" ELSE "saved",
                              deck_id, DOMAIN t.db.cards \ DOMAIN cards)
    /\ UNCHANGED decks
    /\ createUnchanged

\* the checks of copy_shared_deck_to_my_decks and copy_shared_write
copy_gate(shared_deck_id) ==
    IF current_user = NoUser THEN "login_required"
    ELSE IF shared_deck_id \notin DOMAIN decks THEN "deck_not_found"
    ELSE IF decks[shared_deck_id].owner_id # NULL THEN "not_shared"
    ELSE "pass"

\* copy_shared_deck_to_my_decks: a new deck of the acting user and one new
\* card per card of the shared deck, in one transaction
CopySharedDeck(shared_deck_id) ==
    LET n == Cardinality(CardsOfDeck(cards, shared_deck_id))
        new_deck_id == NewDeckId(decks)
    IN  /\ Cardinality(DOMAIN cards) + n <= MaxCards
        /\ Cardinality(DOMAIN decks) < MaxDecks
        /\ IF copy_gate(shared_deck_id) # "pass"
           THEN /\ lastCall' = Created("copy_shared_deck",
                                       copy_gate(shared_deck_id),
                                       shared_deck_id, {})
                /\ UNCHANGED <<cards, decks>>
           ELSE \E fail \in FailPoints :
                LET ds == decks @@ (new_deck_id :>
                                      [owner_id |-> current_user.id])
                    denied == n > 0 /\ check_card_owner(users, ds, new_deck_id,
                                                        current_user.id)
                    w == IF fail \in {"first", "second"} \/ denied
                         THEN [raised |-> TRUE, db |-> Db, result |-> NULL]
                         ELSE [raised |-> FALSE,
                               db |-> [Db EXCEPT
                                         !.cards = copy_cards(@, new_deck_id,
                                                              shared_deck_id,
                                                              today)],
                               result |-> NULL]
                    t == run_in_user_transaction(Db, fail, w)
                IN  /\ cards' = t.db.cards
                    /\ decks' = IF t.raised THEN decks ELSE ds
                    /\ lastCall' =
                          Created("copy_shared_deck",
                                  IF t.raised THEN "could_not_copy"
                                  ELSE "copied",
                                  IF t.raised THEN shared_deck_id
                                  ELSE new_deck_id,
                                  DOMAIN t.db.cards \ DOMAIN cards)
        /\ createUnchanged

\* import_shared_deck_cards with a deck name and n rows that are not yet in
\* the deck: the shared deck of that name (found stands for it) or a new one
ImportSharedDeck(found, n) ==
    LET deck_id == IF found \in DOMAIN decks /\ decks[found].owner_id = NULL
                   THEN found ELSE NewDeckId(decks)
    IN  /\ Cardinality(DOMAIN cards) + n <= MaxCards
        /\ Cardinality(DOMAIN decks) < MaxDecks
        /\ IF current_user = NoUser \/ ~Truthy(current_user.is_admin)
           THEN /\ lastCall' = Created("import_shared_deck", "admin_required",
                                       deck_id, {})
                /\ UNCHANGED <<cards, decks>>
           ELSE \E fail \in FailPoints :
                LET ds == IF deck_id \in DOMAIN decks THEN decks
                          ELSE decks @@ (deck_id :> [owner_id |-> NULL])
                    denied == check_card_owner(users, ds, deck_id,
                                               current_user.id)
                    w == IF fail \in {"first", "second"} \/ denied
                         THEN [raised |-> TRUE, db |-> Db, result |-> NULL]
                         ELSE [raised |-> FALSE,
                               db |-> [Db EXCEPT
                                         !.cards = insert_cards(@, deck_id, n,
                                                                today)],
                               result |-> NULL]
                    t == run_in_user_transaction(Db, fail, w)
                IN  /\ cards' = t.db.cards
                    /\ decks' = IF t.raised THEN decks ELSE ds
                    /\ lastCall' =
                          Created("import_shared_deck",
                                  IF t.raised THEN "import_failed"
                                  ELSE "imported",
                                  deck_id, DOMAIN t.db.cards \ DOMAIN cards)
        /\ createUnchanged

\* main() started again: the backfill of the schedule columns, the standard
\* deck created for the admin when no deck has its name, a fresh session
Startup ==
    LET admin_exists == 1 \in DOMAIN users
        filled == IF admin_exists THEN backfill_cards(cards, today) ELSE cards
        create == admin_exists /\ StandardDeckId \notin DOMAIN decks
        ds     == decks @@ (StandardDeckId :> [owner_id |-> 1])
    IN  /\ Cardinality(DOMAIN cards) + StandardWords <= MaxCards
        /\ \E fail \in FailPoints :
              LET w == IF fail \in {"first", "second"}
                            \/ check_card_owner(users, ds, StandardDeckId, 1)
                       THEN [raised |-> TRUE,
                             db |-> [Db EXCEPT !.cards = filled],
                             result |-> NULL]
                       ELSE [raised |-> FALSE,
                             db |-> [Db EXCEPT
                                       !.cards = insert_cards(filled,
                                                   StandardDeckId,
                                                   StandardWords, today)],
                             result |-> NULL]
                  t == run_in_user_transaction([Db EXCEPT !.cards = filled],
                                               fail, w)
              IN  IF create
                  THEN /\ cards' = t.db.cards
                       /\ decks' = IF t.raised THEN decks ELSE ds
                       /\ lastCall' =
                             Created("create_standard_deck",
                                     IF t.raised THEN "could_not_create"
                                     ELSE "created",
                                     StandardDeckId,
                                     DOMAIN t.db.cards \ DOMAIN cards)
                  ELSE /\ cards' = filled
                       /\ decks' = decks
                       /\ lastCall' = Created("create_standard_deck",
                                              "skipped", StandardDeckId, {})
        /\ session_user_id' = NULL
        /\ current_user' = NoUser
        /\ current_deck_id' = NULL
        /\ current_deck_owner_id' = NULL
        /\ current_card' = NoCard
        /\ is_showing_answer' = FALSE
        /\ last_rating_action' = NoAction
        /\ practice_view_visible' = FALSE
        /\ app_layout_visible' = FALSE
        /\ UNCHANGED <<users, review_events, review_events_id_seq, connVars,
                       today>>

\* midnight, over the days card creation is followed
CreateNextDay ==
    /\ today < MaxCreateDay
    /\ NextDay

\* the store of InitLedger before the standard deck exists
InitCreate == InitLedger

NextCreate ==
    \/ \E u \in DOMAIN UsersWithAdmin : Login(u, TRUE)
    \/ Logout
    \/ CreateNextDay
    \/ Startup
    \/ \E d \in 1..MaxDecks : AddCardToDeck(d)
    \/ \E d \in 1..MaxDecks : CopySharedDeck(d)
    \/ \E d \in 1..MaxDecks, n \in ImportRows : ImportSharedDeck(d, n)

SpecCreate == InitCreate /\ [][NextCreate]_vars

\* ------------------------------------------------------------ registration
\* auth.py over a users table keyed by id with username UNIQUE NOT NULL;
\* lastCall holds the call made and what it returned
AuthNames == {"", "admin", "ann", "bob"}

AuthPasswords == {"", "pw", "pw2"}

\* the ids the users sequence hands out while the model follows it
MaxUserId == 4

\* bcrypt.hashpw, the salt left out: checkpw accepts exactly the password
\* that was hashed
hashpw(password) == [bcrypt |-> password]

checkpw(password, hashed) == hashed = hashpw(password)

\* the users of the store with their names; ann owns deck 2
AuthUsers ==
    (1 :> [username |-> "admin", password_hash |-> hashpw("pw"),
           is_admin |-> "t"])
    @@ (2 :> [username |-> "ann", password_hash |-> hashpw("pw2"),
              is_admin |-> "f"])

UserIdsOf(us, username) == {u \in DOMAIN us : us[u].username = username}

\* user_exists(conn, username)
user_exists(us, username) == UserIdsOf(us, username) # {}

\* a row of decks or review_events holds the id of the user
Referenced(u) ==
    \/ \E d \in DOMAIN decks : decks[d].owner_id = u
    \/ \E ev \in review_events : ev.user_id = u

\* create_user accepting a username that is taken
create_user_no_unique(us, username, password, db_error) ==
    IF username = "" \/ password = ""
    THEN [success |-> FALSE, users |-> us]
    ELSE IF db_error
    THEN [success |-> FALSE, users |-> us]
    ELSE [success |-> TRUE,
          users |-> us @@ (MaxOf(DOMAIN us \cup {0}) + 1 :>
                             [username |-> username,
                              password_hash |-> hashpw(password),
                              is_admin |-> "f"])]

\* create_user(conn, username, password): [success, users]
create_user(us, username, password, db_error) ==
    IF username = "" \/ password = ""
    THEN [success |-> FALSE, users |-> us]
    ELSE IF db_error \/ user_exists(us, username)
    THEN [success |-> FALSE, users |-> us]
    ELSE [success |-> TRUE,
          users |-> us @@ (MaxOf(DOMAIN us \cup {0}) + 1 :>
                             [username |-> username,
                              password_hash |-> hashpw(password),
                              is_admin |-> "f"])]

\* delete_user(conn, username): the DELETE raises when a foreign key still
\* refers to the row
delete_user(us, username, db_error) ==
    LET gone == UserIdsOf(us, username)
    IN  IF db_error \/ \E u \in gone : Referenced(u)
        THEN [raised |-> TRUE, users |-> us]
        ELSE [raised |-> FALSE, users |-> Without(us, gone)]

AuthCall(op, username, password, success, raised) ==
    [op |-> op, username |-> username, password |-> password,
     success |-> success, raised |-> raised, before |-> users]

authUnchanged ==
    UNCHANGED <<decks, cards, review_events, review_events_id_seq, connVars,
                today, session_user_id, current_user, current_deck_id,
                current_deck_owner_id, current_card, is_showing_answer,
                last_rating_action, practice_view_visible,
                app_layout_visible>>

InitAuth ==
    /\ users = AuthUsers
    /\ decks = InitDecks
    /\ cards = [c \in DOMAIN InitCardDecks |->
                    DefaultCard(InitCardDecks[c], 0)]
    /\ review_events = {}
    /\ review_events_id_seq = 1
    /\ today = 0
    /\ session_user_id = NULL
    /\ current_user = NoUser
    /\ current_deck_id = NULL
    /\ current_deck_owner_id = NULL
    /\ current_card = NoCard
    /\ is_showing_answer = FALSE
    /\ last_rating_action = NoAction
    /\ practice_view_visible = FALSE
    /\ app_layout_visible = FALSE
    /\ autocommit = TRUE
    /\ txn = NoTxn
    /\ lastCall = AuthCall("", "", "", FALSE, FALSE)

CreateUser(username, password, db_error) ==
    LET r == create_user(users, username, password, db_error)
    IN  /\ MaxOf(DOMAIN users \cup {0}) < MaxUserId
        /\ users' = r.users
        /\ lastCall' = AuthCall("create_user", username, password, r.success,
                                FALSE)
        /\ authUnchanged

AuthDeleteUser(username, db_error) ==
    LET r == delete_user(users, username, db_error)
    IN  /\ users' = r.users
        /\ lastCall' = AuthCall("delete_user", username, "", FALSE, r.raised)
        /\ authUnchanged

UserExists(username) ==
    /\ lastCall' = AuthCall("user_exists", username, "",
                            user_exists(users, username), FALSE)
    /\ UNCHANGED users
    /\ authUnchanged

NextAuth ==
    \/ \E n \in AuthNames, p \in AuthPasswords, e \in BOOLEAN :
          CreateUser(n, p, e)
    \/ \E n \in AuthNames, e \in BOOLEAN : AuthDeleteUser(n, e)
    \/ \E n \in AuthNames : UserExists(n)

SpecAuth == InitAuth /\ [][NextAuth]_vars

\* ------------------------------------------- reviews over days, with undo
NextReviewUndo ==
    \/ NextReview
    \/ UndoLastRating

SpecReviewUndo == InitReview /\ [][NextReviewUndo]_vars

\* ------------------------------------------------- one practice session
\* failed savings that drew a ledger id, per session followed
MaxFailedSaves == 1

\* the owner has logged in and started practice on deck 2 on SelectToday
InitSession ==
    /\ users = UsersWithAdmin
    /\ decks = InitDecks
    /\ \E due \in [DOMAIN SelectCardDecks -> DueDates] :
          cards = [c \in DOMAIN SelectCardDecks |->
                     [DefaultCard(SelectCardDecks[c], SelectToday)
                        EXCEPT !.next_due = due[c]]]
    /\ review_events = {}
    /\ review_events_id_seq = 1
    /\ today = SelectToday
    /\ session_user_id = 2
    /\ current_user = [id |-> 2, is_admin |-> users[2].is_admin]
    /\ current_deck_id = 2
    /\ current_deck_owner_id = 2
    /\ current_card \in get_next_card(cards, 2, 2, current_user, today)
    /\ is_showing_answer = FALSE
    /\ last_rating_action = NoAction
    /\ practice_view_visible = TRUE
    /\ app_layout_visible = TRUE
    /\ autocommit = TRUE
    /\ txn = NoTxn
    /\ lastCall = Idle

\* a rating button, with at most MaxFailedSaves savings that fail after the
\* ledger id was drawn
SessionRate(grade) ==
    /\ rate_card(grade)
    /\ review_events_id_seq' - 1 - Cardinality(review_events')
          <= MaxFailedSaves

\* a rating that is saved
RateSaved ==
    \E g \in Grades : SessionRate(g) /\ lastCall'.outcome = "saved"

NextSession ==
    \/ FlipCard
    \/ \E g \in Grades : SessionRate(g)

\* the user keeps flipping the presented card and rating it until a rating
\* is saved
SpecSession ==
    /\ InitSession
    /\ [][NextSession]_vars
    /\ WF_vars(FlipCard)
    /\ SF_vars(RateSaved)

\* ------------------------------------------------ the handlers behind the UI
\* page.add(ft.Stack([view_login, app_layout, practice_view])): a handler
\* runs when its button is shown.  view_login is shown while app_layout is
\* not; view_manager, which holds the deck list and the logout button, is
\* shown while practice_view is not; practice_view covers app_layout.
LoginShown == ~app_layout_visible

ManagerShown == app_layout_visible /\ ~practice_view_visible

PracticeShown == practice_view_visible

\* load_decks lists the shared decks and the decks of the current user, and
\* enables the PLAY button of a listed deck that has an owner
can_play_deck(deck_id) ==
    /\ current_user # NoUser
    /\ deck_id \in DOMAIN decks
    /\ decks[deck_id].owner_id \in {NULL, current_user.id}
    /\ decks[deck_id].owner_id # NULL

\* stop_practice leaving the pending undo record in place
UiStopPractice_keeps_pending ==
    /\ PracticeShown
    /\ practice_view_visible' = FALSE
    /\ lastCall' = Idle
    /\ UNCHANGED <<storeVars, connVars, today, session_user_id, current_user,
                   current_deck_id, current_deck_owner_id, current_card,
                   is_showing_answer, app_layout_visible, last_rating_action>>

UiStopPractice == PracticeShown /\ StopPractice

UiLogin(username, password_match) ==
    /\ LoginShown
    /\ Login(username, password_match)

UiLogout == ManagerShown /\ Logout

UiStartPractice(deck_id) ==
    /\ ManagerShown
    /\ can_play_deck(deck_id)
    /\ StartPractice(deck_id)

UiGetNextCard == PracticeShown /\ GetNextCard

UiFlipCard == PracticeShown /\ FlipCard

UiRateCard(grade) == PracticeShown /\ RateCard(grade)

UiUndoLastRating == PracticeShown /\ UndoLastRating

NextUi ==
    \/ \E u \in DOMAIN UsersWithAdmin, m \in BOOLEAN : UiLogin(u, m)
    \/ UiLogout
    \/ \E d \in DeckIds : UiStartPractice(d)
    \/ UiStopPractice
    \/ UiGetNextCard
    \/ UiFlipCard
    \/ \E g \in LedgerGrades : UiRateCard(g)
    \/ UiUndoLastRating

SpecUi == InitLedger /\ [][NextUi]_vars

\* --------------------------------------------- decks and cards with their text
\* Here a deck row is [owner_id, name] and a card row carries front and back.
\* A text is the sequence of its words, so that f"{name} (Copy)" and
\* f"{base_name} {suffix}" are concatenations.
SharedName == <<"A">>

\* DECK_NAME of import_shared_deck.py
DECK_NAME == <<"Lektion-9">>

\* the values of txt_shared_deck_name after strip()
ImportNames == {<<>>, SharedName, DECK_NAME}

Pairs == {<<"Hund", "dog">>, <<"Katze", "cat">>}

\* the lists of (front, back) pairs a file may hold
PairLists == {<<>>} \cup {<<p>> : p \in Pairs} \cup {<<p, q>> : p, q \in Pairs}

TextCard(deck_id, front, back, day) ==
    [deck_id |-> deck_id, front |-> front, back |-> back, interval_days |-> 1,
     ease_factor |-> 250, repetitions |-> 0, next_due |-> day]

\* f"{name} (Copy)" and, from the second try on, f"{base_name} {suffix}"
CopiedName(name, suffix) ==
    IF suffix = 1 THEN name \o <<"(Copy)">>
    ELSE name \o <<"(Copy)", ToString(suffix)>>

NameTaken(ds, owner_id, name) ==
    \E d \in DOMAIN ds : ds[d].owner_id = owner_id /\ ds[d].name = name

\* the copy always named f"{name} (Copy)"
candidate_name_no_loop(ds, owner_id, name) == CopiedName(name, 1)

\* the while loop of copy_shared_write: the first candidate that no deck of
\* the owner has
candidate_name(ds, owner_id, name) ==
    LET k == CHOOSE i \in 1..(Cardinality(DOMAIN ds) + 1) :
                /\ ~NameTaken(ds, owner_id, CopiedName(name, i))
                /\ \A j \in 1..(i - 1) :
                      NameTaken(ds, owner_id, CopiedName(name, j))
    IN  CopiedName(name, k)

TextDb ==
    [cards |-> cards, decks |-> decks, events |-> review_events,
     seq |-> review_events_id_seq]

\* copy_shared_write: order gives, per new card id, the source row it copies
\* (INSERT ... SELECT has no ORDER BY)
copy_shared_write(db, us, user_id, shared_deck_id, day, fail, order) ==
    LET new_deck_id == NewDeckId(db.decks)
        name == candidate_name(db.decks, user_id, db.decks[shared_deck_id].name)
        ds1 == db.decks @@ (new_deck_id :> [owner_id |-> user_id, name |-> name])
        cs1 == [c \in DOMAIN db.cards \cup DOMAIN order |->
                  IF c \in DOMAIN db.cards THEN db.cards[c]
                  ELSE TextCard(new_deck_id, db.cards[order[c]].front,
                                db.cards[order[c]].back, day)]
        denied == /\ DOMAIN order # {}
                  /\ check_card_owner(us, ds1, new_deck_id, user_id)
    IN  IF fail = "first"
        THEN [raised |-> TRUE, db |-> db, result |-> NULL]
        ELSE IF shared_deck_id \notin DOMAIN db.decks
        THEN [raised |-> TRUE, db |-> db, result |-> NULL]
        ELSE IF db.decks[shared_deck_id].owner_id # NULL
        THEN [raised |-> TRUE, db |-> db, result |-> NULL]
        ELSE IF fail = "second" \/ denied
        THEN [raised |-> TRUE, db |-> [db EXCEPT !.decks = ds1],
              result |-> NULL]
        ELSE [raised |-> FALSE,
              db |-> [db EXCEPT !.decks = ds1, !.cards = cs1],
              result |-> new_deck_id]

\* the one-to-one maps from the new card ids onto the source rows
CopyOrders(cs, shared_deck_id) ==
    LET src == CardsOfDeck(cs, shared_deck_id)
        ids == NewIds(DOMAIN cs, Cardinality(src))
    IN  {f \in [ids -> src] : \A a, b \in ids : a # b => f[a] # f[b]}

\* what the last call on decks and cards with text did
TextCall(op, outcome, deck_id, deck_name, pairs, inserted, skipped) ==
    [op |-> op, outcome |-> outcome, deck_id |-> deck_id,
     deck_name |-> deck_name, pairs |-> pairs, inserted |-> inserted,
     skipped |-> skipped]

\* copy_shared_deck_to_my_decks(shared_deck_id)
CopySharedDeckToMyDecks(shared_deck_id) ==
    LET op == "copy_shared_deck_to_my_decks"
        n  == Cardinality(CardsOfDeck(cards, shared_deck_id))
    IN  /\ Cardinality(DOMAIN cards) + n <= MaxCards
        /\ Cardinality(DOMAIN decks) < MaxDecks
        /\ IF current_user = NoUser
           THEN /\ lastCall' = TextCall(op, "login_required", shared_deck_id,
                                        <<>>, <<>>, 0, 0)
                /\ UNCHANGED <<cards, decks>>
           ELSE \E fail \in FailPoints,
                   order \in CopyOrders(cards, shared_deck_id) :
                LET w == copy_shared_write(TextDb, users, current_user.id,
                                           shared_deck_id, today, fail, order)
                    t == run_in_user_transaction(TextDb, fail, w)
                IN  /\ cards' = t.db.cards
                    /\ decks' = t.db.decks
                    /\ lastCall' =
                          IF t.raised
                          THEN TextCall(op, "could_not_copy", shared_deck_id,
                                        <<>>, <<>>, 0, 0)
                          ELSE TextCall(op, "copied", shared_deck_id, <<>>,
                                        <<>>, n, 0)
        /\ createUnchanged

\* the INSERT ... WHERE NOT EXISTS of the import without its WHERE
import_pair_no_check(cs, deck_id, pair, day) ==
    [cards |-> cs @@ (MaxOf(DOMAIN cs \cup {0}) + 1 :>
                         TextCard(deck_id, pair[1], pair[2], day)),
     rowcount |-> 1]

\* INSERT INTO cards (deck_id, front, back) SELECT ... WHERE NOT EXISTS
\* (SELECT 1 FROM cards WHERE deck_id = ... AND front = ... AND back = ...)
import_pair(cs, deck_id, pair, day) ==
    IF \E c \in DOMAIN cs : /\ cs[c].deck_id = deck_id
                            /\ cs[c].front = pair[1]
                            /\ cs[c].back = pair[2]
    THEN [cards |-> cs, rowcount |-> 0]
    ELSE [cards |-> cs @@ (MaxOf(DOMAIN cs \cup {0}) + 1 :>
                              TextCard(deck_id, pair[1], pair[2], day)),
          rowcount |-> 1]

RECURSIVE import_pairs(_, _, _, _)
\* the for loop over the pairs: the cards, inserted and skipped
import_pairs(cs, deck_id, pairs, day) ==
    IF pairs = <<>> THEN [cards |-> cs, inserted |-> 0, skipped |-> 0]
    ELSE LET one  == import_pair(cs, deck_id, Head(pairs), day)
             rest == import_pairs(one.cards, deck_id, Tail(pairs), day)
         IN  [cards |-> rest.cards,
              inserted |-> rest.inserted + one.rowcount,
              skipped |-> rest.skipped + (1 - one.rowcount)]

\* the shared decks SELECT id FROM decks WHERE name = ... AND owner_id IS NULL
\* may return
SharedDecksNamed(ds, deck_name) ==
    {d \in DOMAIN ds : ds[d].owner_id = NULL /\ ds[d].name = deck_name}

\* the deck the import writes to: found, or a new shared deck of that name
import_deck(ds, deck_name, found) ==
    IF found # NULL THEN [deck_id |-> found, decks |-> ds]
    ELSE [deck_id |-> NewDeckId(ds),
          decks |-> ds @@ (NewDeckId(ds) :>
                             [owner_id |-> NULL, name |-> deck_name])]

\* do_import_shared: found is the row of the first SELECT, NULL for none
do_import_shared(db, us, user_id, deck_name, found, pairs, day, fail) ==
    LET target == import_deck(db.decks, deck_name, found)
        done == import_pairs(db.cards, target.deck_id, pairs, day)
        denied == /\ done.inserted > 0
                  /\ check_card_owner(us, target.decks, target.deck_id,
                                      user_id)
    IN  IF fail = "first"
        THEN [raised |-> TRUE, db |-> db, result |-> done]
        ELSE IF fail = "second" \/ denied
        THEN [raised |-> TRUE, db |-> [db EXCEPT !.decks = target.decks],
              result |-> done]
        ELSE [raised |-> FALSE,
              db |-> [db EXCEPT !.decks = target.decks, !.cards = done.cards],
              result |-> done]

FoundRows(ds, deck_name) ==
    IF SharedDecksNamed(ds, deck_name) = {} THEN {NULL}
    ELSE SharedDecksNamed(ds, deck_name)

\* import_shared_deck_cards(cards, has_header) with deck_name in the field
ImportSharedDeckCards(deck_name, pairs) ==
    LET op == "import_shared_deck_cards"
    IN  /\ Cardinality(DOMAIN cards) + Len(pairs) <= MaxCards
        /\ Cardinality(DOMAIN decks) < MaxDecks
        /\ IF current_user = NoUser \/ ~Truthy(current_user.is_admin)
           THEN /\ lastCall' = TextCall(op, "admin_required", NULL, deck_name,
                                        pairs, 0, 0)
                /\ UNCHANGED <<cards, decks>>
           ELSE IF deck_name = <<>>
           THEN /\ lastCall' = TextCall(op, "name_required", NULL, deck_name,
                                        pairs, 0, 0)
                /\ UNCHANGED <<cards, decks>>
           ELSE IF pairs = <<>>
           THEN /\ lastCall' = TextCall(op, "no_rows", NULL, deck_name,
                                        pairs, 0, 0)
                /\ UNCHANGED <<cards, decks>>
           ELSE \E fail \in FailPoints, found \in FoundRows(decks, deck_name) :
                LET w == do_import_shared(TextDb, users, current_user.id,
                                          deck_name, found, pairs, today, fail)
                    t == run_in_user_transaction(TextDb, fail, w)
                IN  /\ cards' = t.db.cards
                    /\ decks' = t.db.decks
                    /\ lastCall' =
                          IF t.raised
                          THEN TextCall(op, "import_failed", NULL, deck_name,
                                        pairs, 0, 0)
                          ELSE TextCall(op, "imported",
                                        import_deck(decks, deck_name,
                                                    found).deck_id,
                                        deck_name, pairs, w.result.inserted,
                                        w.result.skipped)
        /\ createUnchanged

\* import_shared_deck.py on its own autocommit connection: the deck is
\* looked up or created, then the first done pairs of the file are imported,
\* one statement each; done < Len(pairs) is a run that breaks off
ImportScript(pairs, done) ==
    LET op == "import_shared_deck.py"
    IN  /\ Cardinality(DOMAIN cards) + Len(pairs) <= MaxCards
        /\ Cardinality(DOMAIN decks) < MaxDecks
        /\ done \in 0..Len(pairs)
        /\ IF ~\E u \in DOMAIN users : Truthy(users[u].is_admin)
           THEN /\ lastCall' = TextCall(op, "admin_not_found", NULL,
                                        DECK_NAME, pairs, 0, 0)
                /\ UNCHANGED <<cards, decks>>
           ELSE \E found \in FoundRows(decks, DECK_NAME) :
                LET target == import_deck(decks, DECK_NAME, found)
                    r == import_pairs(cards, target.deck_id,
                                      SubSeq(pairs, 1, done), today)
                IN  /\ decks' = target.decks
                    /\ cards' = r.cards
                    /\ lastCall' =
                          TextCall(op,
                                   IF done = Len(pairs) THEN "completed"
                                   ELSE "aborted",
                                   target.deck_id, DECK_NAME, pairs,
                                   r.inserted, r.skipped)
        /\ createUnchanged

\* the shared deck "A" with one card, and the deck "A (Copy)" of user 2 with
\* one card
InitText ==
    /\ users = UsersWithAdmin
    /\ decks = (1 :> [owner_id |-> NULL, name |-> SharedName])
               @@ (2 :> [owner_id |-> 2, name |-> CopiedName(SharedName, 1)])
    /\ cards = (1 :> TextCard(2, "Hund", "dog", 0))
               @@ (2 :> TextCard(1, "Hund", "dog", 0))
    /\ review_events = {}
    /\ review_events_id_seq = 1
    /\ today = 0
    /\ session_user_id = NULL
    /\ current_user = NoUser
    /\ current_deck_id = NULL
    /\ current_deck_owner_id = NULL
    /\ current_card = NoCard
    /\ is_showing_answer = FALSE
    /\ last_rating_action = NoAction
    /\ practice_view_visible = FALSE
    /\ app_layout_visible = FALSE
    /\ autocommit = TRUE
    /\ txn = NoTxn
    /\ lastCall = Idle

NextText ==
    \/ \E u \in DOMAIN UsersWithAdmin : Login(u, TRUE)
    \/ Logout
    \/ \E d \in 1..MaxDecks : CopySharedDeckToMyDecks(d)
    \/ \E n \in ImportNames, ps \in PairLists : ImportSharedDeckCards(n, ps)
    \/ \E ps \in PairLists, k \in 0..2 : ImportScript(ps, k)

SpecText == InitText /\ [][NextText]_vars

\* ------------------------------------------------------- the login view
\* login_async without the password comparison
LoginAsync_no_password_check(username, password, db_error) ==
    LET found == UserIdsOf(users, username)
        ok    == ~db_error /\ found # {}
    IN  /\ LoginShown
        /\ IF ok
           THEN \E u \in found :
                  /\ current_user' = [id |-> u, is_admin |-> users[u].is_admin]
                  /\ app_layout_visible' = TRUE
                  /\ session_user_id' = u
           ELSE UNCHANGED <<current_user, app_layout_visible, session_user_id>>
        /\ lastCall' = AuthCall("login", username, password, ok, db_error)
        /\ UNCHANGED <<storeVars, connVars, today, current_deck_id,
                       current_deck_owner_id, current_card, is_showing_answer,
                       last_rating_action, practice_view_visible>>

\* login_async(username, password): the row of the username is read, the
\* password is compared with its hash; db_error is the SELECT raising
LoginAsync(username, password, db_error) ==
    LET found == UserIdsOf(users, username)
        ok    == /\ ~db_error
                 /\ \E u \in found : checkpw(password, users[u].password_hash)
    IN  /\ LoginShown
        /\ IF ok
           THEN \E u \in found :
                  /\ current_user' = [id |-> u, is_admin |-> users[u].is_admin]
                  /\ app_layout_visible' = TRUE
                  /\ session_user_id' = u
           ELSE UNCHANGED <<current_user, app_layout_visible, session_user_id>>
        /\ lastCall' = AuthCall("login", username, password, ok, db_error)
        /\ UNCHANGED <<storeVars, connVars, today, current_deck_id,
                       current_deck_owner_id, current_card, is_showing_answer,
                       last_rating_action, practice_view_visible>>

\* the register button of the login view
RegisterAsync(username, password, db_error) ==
    /\ LoginShown
    /\ CreateUser(username, password, db_error)

NextLogin ==
    \/ \E n \in AuthNames, p \in AuthPasswords, e \in BOOLEAN :
          LoginAsync(n, p, e)
    \/ \E n \in AuthNames, p \in AuthPasswords, e \in BOOLEAN :
          RegisterAsync(n, p, e)
    \/ UiLogout

SpecLogin == InitAuth /\ [][NextLogin]_vars

\* ------------------------------------------------------ the user list
\* an admin, two users with a deck each, and a shared deck
DeletionUsers == UsersWithAdmin @@ (3 :> [is_admin |-> "f"])

DeletionDecks == InitDecks @@ (3 :> [owner_id |-> 3])

\* card id -> deck id
DeletionCardDecks == InitCardDecks @@ (4 :> 3)

InitDeletion ==
    /\ users = DeletionUsers
    /\ decks = DeletionDecks
    /\ cards = [c \in DOMAIN DeletionCardDecks |->
                    DefaultCard(DeletionCardDecks[c], 0)]
    /\ review_events = {}
    /\ review_events_id_seq = 1
    /\ today = 0
    /\ session_user_id = NULL
    /\ current_user = NoUser
    /\ current_deck_id = NULL
    /\ current_deck_owner_id = NULL
    /\ current_card = NoCard
    /\ is_showing_answer = FALSE
    /\ last_rating_action = NoAction
    /\ practice_view_visible = FALSE
    /\ app_layout_visible = FALSE
    /\ autocommit = TRUE
    /\ txn = NoTxn
    /\ lastCall = Idle

\* the handlers that write while users are deleted; decks are deleted with
\* their users only
NextDeletion ==
    \/ \E u \in DOMAIN DeletionUsers : Login(u, TRUE)
    \/ Logout
    \/ \E d \in DOMAIN DeletionDecks : StartPractice(d)
    \/ FlipCard
    \/ \E g \in LedgerGrades : RateCard(g)
    \/ \E u \in DOMAIN DeletionUsers : DeleteUser(u)

SpecDeletion == InitDeletion /\ [][NextDeletion]_vars

\* ------------------------------------------------------------ the claims
\* the step is a call of rate_card / of undo_last_rating
RateStep == lastCall'.op = "rate_card"

UndoStep == lastCall'.op = "undo_last_rating"

StoreUnchanged == cards' = cards /\ review_events' = review_events

\* the answer of a presented card is showing
Revealed == current_card # NoCard /\ is_showing_answer

\* the deck practice was started on is a personal / a shared deck of the store
PersonalDeck ==
    current_deck_id \in DOMAIN decks /\ decks[current_deck_id].owner_id # NULL

SharedDeck ==
    current_deck_id \in DOMAIN decks /\ decks[current_deck_id].owner_id = NULL

\* the acting identity is an admin of the users table
Privileged ==
    /\ current_user # NoUser
    /\ current_user.id \in DOMAIN users
    /\ users[current_user.id].is_admin = "t"

\* the rejections of a grading for lack of permission
PermissionDenied ==
    {"shared_deck", "login_required", "not_owner", "store_rejected"}

\* C1: a grading is all-or-nothing.  A rate_card call that reports "saved"
\* has committed both the schedule computed from the presented card and
\* exactly one new review event; every other call (rejected, or failed at any
\* statement of the transaction or at its commit) leaves the cards and the
\* ledger as they were.
C1_AllOrNothing ==
    [][RateStep =>
        IF lastCall'.outcome = "saved"
        THEN \E e \in review_events' \ review_events :
                /\ review_events' = review_events \cup {e}
                /\ e.card_id = current_card.id
                /\ e.user_id = current_user.id
                /\ current_card.id \in DOMAIN cards
                /\ cards' = UpdateCardSchedule(cards, current_card.id,
                              calculate_schedule(current_card.interval_days,
                                                 current_card.ease_factor,
                                                 current_card.repetitions,
                                                 e.grade, today))
        ELSE StoreUnchanged]_vars

\* a grading failed after its gate passed, with a grading already recorded
C1_Witness ==
    /\ lastCall.op = "rate_card"
    /\ lastCall.outcome = "save_failed"
    /\ review_events # {}

\* C2: round trip.  A saved rate_card followed immediately by a successful
\* undo_last_rating leaves the card's stored row and the ledger exactly as
\* they were before the rate_card.
C2_RoundTrip ==
    (/\ lastCall.op = "undo_last_rating"
     /\ lastCall.outcome = "undone"
     /\ lastCall.prev = <<"rate_card", "saved">>)
    => /\ lastCall.card \in DOMAIN cards
       /\ cards[lastCall.card] = lastCall.before_row
       /\ review_events = lastCall.before_events

\* C3: undo is consumed exactly once.  A successful undo empties the
\* pending-undo slot, and an undo with an empty slot (after an undo, or when
\* nothing was graded) reports "nothing" and changes no card, no ledger row
\* and not the slot.
C3_UndoConsumedOnce ==
    [][UndoStep =>
        /\ (lastCall'.outcome = "undone" => last_rating_action' = NoAction)
        /\ (last_rating_action = NoAction =>
              /\ lastCall'.outcome = "nothing"
              /\ StoreUnchanged
              /\ last_rating_action' = NoAction)]_vars

\* a second undo right after a successful one
C3_Witness ==
    /\ lastCall.op = "undo_last_rating"
    /\ lastCall.outcome = "nothing"
    /\ lastCall.prev = <<"undo_last_rating", "undone">>

\* the card of the pending undo record holds the record's snapshot again
Restored ==
    /\ last_rating_action.card_id \in DOMAIN cards'
    /\ ScheduleOf(cards'[last_rating_action.card_id])
          = last_rating_action.previous
    /\ \A c \in DOMAIN cards :
          c # last_rating_action.card_id => cards'[c] = cards[c]

C5_NoCrossIdentityDelete ==
    [][UndoStep =>
        \A e \in review_events \ review_events' :
            e.user_id = current_user.id]_vars

\* an undo by another identity than the one that graded went through, and
\* the ledger entry of the grading is still there
C5_Witness ==
    /\ lastCall.op = "undo_last_rating"
    /\ lastCall.outcome = "undone"
    /\ \E e \in review_events :
          e.id = lastCall.event_id /\ e.user_id # current_user.id

\* C6: one pending undo record, overwritten by every saved grading.  A saved
\* rate_card makes the slot the record of that grading; a successful undo
\* reverts the most recent grading only: no other card changes, no other
\* ledger entry goes, no later entry exists, and the slot is left empty.
C6_SingleSlotOverwritten ==
    [][/\ (RateStep /\ lastCall'.outcome = "saved") =>
            /\ last_rating_action'.card_id = current_card.id
            /\ last_rating_action'.event_id = review_events_id_seq
            /\ \E e \in review_events' \ review_events :
                  e.id = last_rating_action'.event_id
       /\ (UndoStep /\ lastCall'.outcome = "undone") =>
            /\ \A c \in DOMAIN cards :
                  c # last_rating_action.card_id => cards'[c] = cards[c]
            /\ \A e \in review_events :
                  e.id # last_rating_action.event_id => e \in review_events'
            /\ \A e \in review_events : e.id <= last_rating_action.event_id
            /\ last_rating_action' = NoAction]_vars

\* card A was graded, then card B, then B's grading was undone: A's entry
\* and A's new schedule are still there
C6_Witness ==
    /\ lastCall.op = "undo_last_rating"
    /\ lastCall.outcome = "undone"
    /\ last_rating_action = NoAction
    /\ \E e \in review_events :
          /\ e.card_id # lastCall.card
          /\ e.id < lastCall.event_id
          /\ e.user_id = current_user.id
          /\ cards[e.card_id].next_due = today + 1

\* C7: a rate_card call with no card presented or with the front showing is
\* rejected and changes no card, no ledger row and not the pending-undo slot.
C7_FlipBeforeRating ==
    [][(RateStep /\ ~Revealed) =>
        /\ lastCall'.outcome \in {"no_card", "flip_first"}
        /\ StoreUnchanged
        /\ last_rating_action' = last_rating_action]_vars

\* the owner rated a presented card of their own deck without flipping it
C7_Witness ==
    /\ lastCall.op = "rate_card"
    /\ lastCall.outcome = "flip_first"
    /\ current_card # NoCard
    /\ current_user # NoUser
    /\ current_user.id = current_deck_owner_id

\* C8: on a personal deck a grading of a revealed card goes through exactly
\* for the deck's owner and for an admin (it is saved, or fails on a storage
\* failure); for an anonymous session and for any other identity it is
\* rejected and the cards and the ledger stay as they were.
C8_PersonalDeckGate ==
    [][(RateStep /\ Revealed /\ PersonalDeck) =>
        IF /\ current_user # NoUser
           /\ (current_user.id = decks[current_deck_id].owner_id
                 \/ Privileged)
        THEN /\ lastCall'.outcome \in {"saved", "save_failed"}
             /\ lastCall'.outcome = "saved" =>
                  \E e \in review_events' \ review_events :
                     e.user_id = current_user.id
        ELSE /\ lastCall'.outcome \in {"login_required", "not_owner"}
             /\ StoreUnchanged]_vars

\* a grading by a user who is neither the owner nor an admin was rejected
\* on a deck whose owner had a grading recorded
C8_Witness ==
    /\ lastCall.op = "rate_card"
    /\ lastCall.outcome = "not_owner"
    /\ PersonalDeck
    /\ \E e \in review_events :
          /\ e.deck_id = current_deck_id
          /\ e.user_id = decks[current_deck_id].owner_id

\* C9: on a shared deck a grading of a revealed card by an anonymous session
\* or by an identity that is no admin is always denied, and the cards and the
\* ledger stay as they were.
C9_SharedDeckDenied ==
    [][(RateStep /\ Revealed /\ SharedDeck /\ ~Privileged) =>
        /\ lastCall'.outcome \in PermissionDenied
        /\ StoreUnchanged]_vars

\* a logged-in user who is no admin rated a revealed card of a shared deck
C9_Witness ==
    /\ lastCall.op = "rate_card"
    /\ lastCall.outcome = "shared_deck"
    /\ SharedDeck
    /\ lastCall.card \in DOMAIN cards
    /\ cards[lastCall.card].deck_id = current_deck_id
    /\ current_user # NoUser
    /\ ~Privileged

BoundIsAdmin ==
    LET u == current_setting_integer(lastCall.setting)
    IN  u \in DOMAIN users /\ users[u].is_admin = "t"

BoundIsOwner ==
    LET u == current_setting_integer(lastCall.setting)
    IN  /\ u # NULL
        /\ decks[lastCall.deck].owner_id # NULL
        /\ u = decks[lastCall.deck].owner_id

\* C11: the trigger re-checks the decision at the mutation boundary.  Under
\* every value of the bound identity (unset, empty, an id without a user
\* row, a user whose admin flag is NULL, a non-owner, the owner, an admin) an
\* INSERT or UPDATE of a card goes through only if the bound identity owns
\* the deck or is an admin, and on a shared deck only if it is an admin.
C11_TriggerGate ==
    (lastCall.op \in {"insert", "update"} /\ lastCall.outcome = "written")
    => (BoundIsAdmin \/ BoundIsOwner)

\* C12: the identity binding of a transaction is released on every exit
\* path.  While work() runs its statements see the identity passed to the
\* call; once run_in_user_transaction has returned or raised, no
\* transaction-local identity is in effect, the identity seen by the next
\* statement is the one seen before the call, and conn.autocommit has the
\* value it had before the call.
C12_BindingReleased ==
    /\ txn.pc = "commit" => txn.seen = txn.user_id
    /\ (txn.pc = "idle" /\ txn.outcome # "") =>
          /\ txn.local_user_id = NULL
          /\ EffectiveUserId = session_user_id
          /\ autocommit = txn.prev_autocommit
    /\ (txn.pc = "finally") => EffectiveUserId = txn.before

\* a call bound to another identity than the session's ran its work, failed
\* in it or at the commit, and has raised
C12_Witness ==
    /\ txn.pc = "idle"
    /\ txn.outcome = "raised"
    /\ txn.seen = txn.user_id
    /\ session_user_id # NULL
    /\ txn.user_id # session_user_id

\* calculate_schedule has been applied to the recorded input
Calculated == lastCall.op = "calculate_schedule"

\* C13: for every input state, values below the floors included, and every
\* grade token, the state returned by calculate_schedule has
\* ease_factor >= 1.3 and interval_days >= 1.
C13_Floors ==
    Calculated =>
        /\ lastCall.result.ease_factor >= 130
        /\ lastCall.result.interval_days >= 1

\* a third or later grading of a state with interval 0 and an ease below
\* the floor
C13_Witness ==
    /\ Calculated
    /\ lastCall.interval_days = 0
    /\ lastCall.ease_factor < 130
    /\ lastCall.repetitions >= 2
    /\ lastCall.grade = "hard"

\* C14: grade 'again' returns repetitions = 0 and interval_days = 1 for
\* every prior state.
C14_AgainResets ==
    (Calculated /\ lastCall.grade = "again") =>
        /\ lastCall.result.repetitions = 0
        /\ lastCall.result.interval_days = 1

\* 'again' on a state with a long interval and several repetitions
C14_Witness ==
    /\ Calculated
    /\ lastCall.grade = "again"
    /\ lastCall.interval_days = MaxInterval
    /\ lastCall.repetitions = MaxReps

\* C15: a grade other than 'again' increments repetitions by exactly 1 and
\* sets interval_days to 1 when the new repetitions is 1, to 6 when it is 2,
\* and otherwise to max(1, round(previous interval_days * ease_factor)) with
\* the ease_factor before this grade's adjustment (round is Python's: ties
\* go to the even integer).
C15_IntervalProgression ==
    (Calculated /\ lastCall.grade # "again") =>
        /\ lastCall.result.repetitions = lastCall.repetitions + 1
        /\ lastCall.result.interval_days =
              IF lastCall.repetitions = 0 THEN 1
              ELSE IF lastCall.repetitions = 1 THEN 6
              ELSE Max(1, RoundHalfEven(
                            lastCall.interval_days * lastCall.ease_factor, 100))

\* a third grading, 'easy', of a state {6, 2.5, 2}: the interval is 15, not
\* round(6 * 2.65) = 16
C15_Witness ==
    /\ Calculated
    /\ lastCall.grade = "easy"
    /\ lastCall.interval_days = 6
    /\ lastCall.ease_factor = 250
    /\ lastCall.repetitions = 2
    /\ lastCall.result.interval_days = 15

\* C16: the new ease_factor is max(1.3, old ease_factor + delta) with delta
\* -0.2 for 'again', -0.15 for 'hard', 0.0 for 'good', +0.15 for 'easy'.
C16_EaseAdjustment ==
    (Calculated /\ lastCall.grade \in Grades) =>
        LET delta == IF lastCall.grade = "again" THEN -20
                     ELSE IF lastCall.grade = "hard" THEN -15
                     ELSE IF lastCall.grade = "good" THEN 0
                     ELSE 15
            sum == lastCall.ease_factor + delta
        IN  lastCall.result.ease_factor = IF sum < 130 THEN 130 ELSE sum

\* 'hard' on an ease of 1.4: 1.25 is raised to the floor 1.3
C16_Witness ==
    /\ Calculated
    /\ lastCall.grade = "hard"
    /\ lastCall.ease_factor = 140
    /\ lastCall.result.ease_factor = 130

\* C17: a grade token outside the four grades is no error: the returned
\* state is exactly the one returned for 'good'.
C17_UnknownGradeIsGood ==
    (Calculated /\ lastCall.grade \notin Grades) =>
        lastCall.result = calculate_schedule(lastCall.interval_days,
                                             lastCall.ease_factor,
                                             lastCall.repetitions,
                                             "good", today)

\* an unrecognised token on a state past its second repetition
C17_Witness ==
    /\ Calculated
    /\ lastCall.grade = "unknown"
    /\ lastCall.repetitions >= 2
    /\ lastCall.result.repetitions = lastCall.repetitions + 1
    /\ lastCall.result.ease_factor = lastCall.ease_factor
    /\ lastCall.ease_factor >= 130

\* the stored schedule of the graded card before / after the step
GradedBefore(i, e, r) ==
    /\ current_card.interval_days = i
    /\ current_card.ease_factor = e
    /\ current_card.repetitions = r

GradedAfter(i, e, r, due) ==
    ScheduleOf(cards'[current_card.id]) =
        [interval_days |-> i, ease_factor |-> e, repetitions |-> r,
         next_due |-> due]

\* C18: after every successful grading the stored next_due of the card is
\* the grading day plus the newly stored interval_days.  From {1, 2.5, 0}:
\* 'good' on day D stores {1, 2.5, 1, D+1}; 'good' on that stores
\* {6, 2.5, 2, day+6}; 'again' on that stores {1, 2.3, 0, day+1}.
C18_NextDue ==
    [][(RateStep /\ lastCall'.outcome = "saved") =>
        LET g == (CHOOSE e \in review_events' :
                     e.id = lastCall'.event_id).grade
        IN  /\ cards'[current_card.id].next_due
                 = today + cards'[current_card.id].interval_days
            /\ (g = "good" /\ GradedBefore(1, 250, 0))
                 => GradedAfter(1, 250, 1, today + 1)
            /\ (g = "good" /\ GradedBefore(1, 250, 1))
                 => GradedAfter(6, 250, 2, today + 6)
            /\ (g = "again" /\ GradedBefore(6, 250, 2))
                 => GradedAfter(1, 230, 0, today + 1)]_vars

\* the scenario: 'good' on day 0, 'good' on day 1, 'again' on day 7
C18_Witness ==
    /\ today = 7
    /\ ScheduleOf(cards[1]) =
          [interval_days |-> 1, ease_factor |-> 230, repetitions |-> 0,
           next_due |-> 8]
    /\ {<<e.id, e.card_id, e.grade>> : e \in review_events}
          = {<<1, 1, "good">>, <<2, 1, "good">>, <<3, 1, "again">>}

\* the session has scheduling rights on the deck it practises
HasSchedulingRights ==
    /\ current_deck_owner_id # NULL
    /\ current_user # NoUser
    /\ (current_user.is_admin = "t" \/ current_user.id = current_deck_owner_id)

\* the cards of the practised deck that are due today, an unset next_due
\* counting as today
DueSet ==
    {c \in DOMAIN cards :
        /\ cards[c].deck_id = current_deck_id
        /\ (cards[c].next_due = NULL \/ cards[c].next_due <= today)}

\* C19: with scheduling rights get_next_card never presents a card whose
\* next_due is after today: it presents a due card whenever the deck has
\* one, and no card exactly when the due set is empty.
C19_OnlyDueCards ==
    [][(GetNextCard /\ HasSchedulingRights) =>
        IF DueSet = {} THEN current_card' = NoCard
        ELSE current_card'.id \in DueSet]_vars

\* a due card is presented by a session with rights while the deck also
\* holds a card that is not due
C19_Witness ==
    /\ HasSchedulingRights
    /\ practice_view_visible
    /\ current_card # NoCard
    /\ current_card.id \in DueSet
    /\ \E c \in DOMAIN cards :
          /\ cards[c].deck_id = current_deck_id
          /\ cards[c].next_due # NULL
          /\ cards[c].next_due > today

\* C20: with scheduling rights the card presented by get_next_card has the
\* earliest next_due of the due cards of the deck: no other card of the deck
\* has a strictly earlier next_due.
C20_EarliestDueFirst ==
    [][(GetNextCard /\ HasSchedulingRights /\ current_card' # NoCard) =>
        LET shown == IF cards[current_card'.id].next_due = NULL THEN today
                     ELSE cards[current_card'.id].next_due
        IN  \A o \in DOMAIN cards :
               (cards[o].deck_id = current_deck_id
                  /\ cards[o].next_due # NULL)
               => cards[o].next_due >= shown]_vars

\* the card due yesterday is presented while another is due today and a
\* third has no next_due
C20_Witness ==
    /\ HasSchedulingRights
    /\ practice_view_visible
    /\ current_card # NoCard
    /\ current_card.next_due = today - 1
    /\ \E a, b \in DOMAIN cards \ {current_card.id} :
          /\ cards[a].deck_id = current_deck_id
          /\ cards[b].deck_id = current_deck_id
          /\ cards[a].next_due = today
          /\ cards[b].next_due = NULL

\* the cards of the practised deck
DeckCards == {c \in DOMAIN cards : cards[c].deck_id = current_deck_id}

ShownCounts ==
    counts_row(cards, current_deck_id,
               can_schedule_reviews(current_deck_owner_id, current_user),
               today)

\* the next_due values of the practised deck that lie after today
LaterDues ==
    {cards[c].next_due :
        c \in {d \in DeckCards : cards[d].next_due # NULL
                                   /\ cards[d].next_due > today}}

\* C22: with scheduling rights the counts shown by get_next_card agree with
\* its selection: due_count > 0 exactly when a card is presented, due_count
\* is the number of cards with next_due <= today (unset counting as today),
\* total_count is the number of cards of the deck, and next_due_date is the
\* least next_due after today (none when no card is due later).
C22_CountsMatchSelection ==
    [][(GetNextCard /\ HasSchedulingRights) =>
        /\ (ShownCounts.due_count > 0) <=> (current_card' # NoCard)
        /\ ShownCounts.due_count = Cardinality(DueSet)
        /\ ShownCounts.total_count = Cardinality(DeckCards)
        /\ IF LaterDues = {} THEN ShownCounts.next_due_date = NULL
           ELSE /\ ShownCounts.next_due_date \in LaterDues
                /\ \A d \in LaterDues : ShownCounts.next_due_date <= d]_vars

\* a session with rights is shown a card without next_due while the deck
\* holds a second due card and one due after today
C22_Witness ==
    /\ HasSchedulingRights
    /\ practice_view_visible
    /\ current_card # NoCard
    /\ cards[current_card.id].next_due = NULL
    /\ ShownCounts.due_count = 2
    /\ ShownCounts.total_count = 3
    /\ ShownCounts.next_due_date = today + 1

\* C23: the ledger is append-only except for undo: over every step of
\* grading, undo, deck deletion and user deletion a committed review_events
\* row stays as it is, unless the step is the undo of the grading that
\* created the row.
C23_LedgerAppendOnly ==
    [][\A ev \in review_events :
          \/ ev \in review_events'
          \/ /\ UndoStep
             /\ lastCall'.outcome = "undone"
             /\ lastCall'.event_id = ev.id]_vars

\* C24: a successful grading adds exactly one review_events row, and the row
\* holds the acting user, the graded card, the deck that owns the graded
\* card and the grade submitted; a rejected or failed grading adds none.
C24_OneEventPerGrading ==
    [][\A g \in Grades :
          RateCard(g) =>
             IF lastCall'.outcome = "saved"
             THEN \E ev \in review_events' \ review_events :
                     /\ review_events' = review_events \cup {ev}
                     /\ ev.user_id = current_user.id
                     /\ ev.card_id = current_card.id
                     /\ ev.deck_id = cards[current_card.id].deck_id
                     /\ ev.grade = g
             ELSE review_events' = review_events]_vars

\* a grading "hard" has been saved and its row is in the ledger next to an
\* earlier one
C24_Witness ==
    /\ lastCall.op = "rate_card"
    /\ lastCall.outcome = "saved"
    /\ Cardinality(review_events) = 2
    /\ \E ev \in review_events :
          /\ ev.id = lastCall.event_id
          /\ ev.card_id = lastCall.card
          /\ ev.grade = "hard"

\* both sessions have committed their grading
BothCommitted == \A s \in Sessions : txn[s].pc = "committed"

\* C25: two sessions grading the same card from the same snapshot resolve as
\* last write wins: once both have committed, the stored schedule is
\* calculate_schedule of the snapshot with the grade of the later committer,
\* all four fields together, the ledger holds the event of each session, and
\* no session is turned away: until it has committed a session is either
\* able to take its next step or waiting for the other's commit.
C25_LastWriteWins ==
    /\ \A s \in Sessions : txn[s].pc # "rolled_back"
    /\ \A s \in Sessions :
          txn[s].pc \notin {"presented", "committed"} =>
             ENABLED (ConcUpdate(s) \/ ConcInsert(s) \/ ConcCommit(s)
                        \/ \E o \in Sessions \ {s} :
                              ConcInsert(o) \/ ConcCommit(o))
    /\ BothCommitted =>
          /\ ScheduleOf(cards[SharedCardId]) =
                calculate_schedule(current_card.interval_days,
                                   current_card.ease_factor,
                                   current_card.repetitions,
                                   lastCall[2].grade, today)
          /\ Cardinality(review_events) = 2
          /\ \A s \in Sessions :
                \E ev \in review_events :
                   /\ ev.user_id = SessionUser[s]
                   /\ ev.card_id = SharedCardId
                   /\ ev.grade = txn[s].grade

\* both sessions have committed different grades, "easy" first and "again"
\* last
C25_Witness ==
    /\ BothCommitted
    /\ Len(lastCall) = 2
    /\ lastCall[1].grade = "easy"
    /\ lastCall[2].grade = "again"
    /\ lastCall[1].session = 2

\* the cases in which rate_card turns the grading away
RejectCase ==
    \/ ~Revealed
    \/ current_deck_owner_id = NULL
    \/ current_user = NoUser
    \/ ~(current_user.is_admin = "t"
           \/ current_user.id = current_deck_owner_id)

\* C26: a review cycle abandoned before grading has no storage effect:
\* start_practice, get_next_card, flip_card, stop_practice and every
\* rejected rate_card leave the cards table and the ledger as they were.
C26_NoEffectBeforeGrading ==
    [][(\/ \E d \in DeckIds : StartPractice(d)
        \/ GetNextCard
        \/ FlipCard
        \/ StopPractice
        \/ RateStep /\ RejectCase) => StoreUnchanged]_vars

\* a rating pressed before the flip has been turned away while the ledger
\* holds a row
C26_Witness ==
    /\ lastCall.op = "rate_card"
    /\ lastCall.outcome = "flip_first"
    /\ review_events # {}
    /\ current_card # NoCard
    /\ ~is_showing_answer

\* the grading failed in the store: a statement or the commit raised
StorageFailure == lastCall'.outcome \in {"save_failed", "store_rejected"}

\* C27: retrying a grading after a storage failure is safe.  A failed
\* rate_card leaves the cards, the ledger, the presented card and its
\* revealed answer as they were, so that the resubmitted grade is computed
\* from the same snapshot; the grading that then succeeds stores
\* calculate_schedule of that snapshot and adds one ledger row.  For the
\* card presented first on day 0: however many attempts failed, the day ends
\* with no row and the untouched card, or with one row and the schedule one
\* successful grading gives.
C27_RetryIsSafe ==
    /\ [](today = 0 =>
            \/ /\ review_events = {}
               /\ cards[1] = DefaultCard(2, 0)
            \/ \E ev \in review_events :
                  /\ review_events = {ev}
                  /\ ev.card_id = 1
                  /\ ScheduleOf(cards[1]) =
                        calculate_schedule(1, 250, 0, ev.grade, 0))
    /\ [][\A g \in Grades :
            ReviewRate(g) =>
               IF StorageFailure
               THEN /\ StoreUnchanged
                    /\ current_card' = current_card
                    /\ is_showing_answer' = is_showing_answer
                    /\ last_rating_action' = last_rating_action
               ELSE lastCall'.outcome = "saved" =>
                      /\ ScheduleOf(cards'[current_card.id]) =
                            calculate_schedule(current_card.interval_days,
                                               current_card.ease_factor,
                                               current_card.repetitions,
                                               g, today)
                      /\ Cardinality(review_events' \ review_events) = 1
                      /\ review_events \subseteq review_events']_vars

\* on day 0 the first grading that was saved is the third attempt: two
\* attempts failed after drawing a ledger id, and the ledger holds one row
C27_Witness ==
    /\ today = 0
    /\ lastCall.op = "rate_card"
    /\ lastCall.outcome = "saved"
    /\ lastCall.event_id = 3
    /\ Cardinality(review_events) = 1
    /\ ScheduleOf(cards[1]) = calculate_schedule(1, 250, 0, "good", 0)

\* the presented card has been deleted from the store
CardGone == current_card # NoCard /\ current_card.id \notin DOMAIN cards

\* C28: grading a card that was deleted with its deck after it had been
\* presented fails: the call is not saved, and when it passes rate_card's
\* checks it ends in a storage error; no ledger row is added, no card is
\* changed and the pending undo record stays what it was.
C28_GradingDeletedCardFails ==
    [][(RateStep /\ CardGone) =>
          /\ lastCall'.outcome # "saved"
          /\ (Revealed /\ HasSchedulingRights) =>
                lastCall'.outcome \in {"store_rejected", "save_failed"}
          /\ StoreUnchanged
          /\ last_rating_action' = last_rating_action]_vars

\* the owner's grading of a card deleted with its deck has been refused by
\* the store
C28_Witness ==
    /\ lastCall.op = "rate_card"
    /\ lastCall.outcome = "store_rejected"
    /\ CardGone
    /\ lastCall.card = current_card.id
    /\ current_deck_id \notin DOMAIN decks
    /\ is_showing_answer

\* the cards a step adds to the store
NewCards == DOMAIN cards' \ DOMAIN cards

\* C29: every card, whichever way it is created (add_card_to_deck, the
\* standard deck at startup, the CSV import into a shared deck, the copy of
\* a shared deck), starts with interval_days 1, ease_factor 2.5,
\* repetitions 0 and next_due on the day of its creation; a copy does not
\* take over the schedule of the card it is copied from.
C29_NewCardSchedule ==
    [][\A c \in NewCards :
          ScheduleOf(cards'[c]) =
             [interval_days |-> 1, ease_factor |-> 250, repetitions |-> 0,
              next_due |-> today]]_vars

\* a shared deck has been copied on a later day than its card was created:
\* the copy is due on the day of the copy, the source card on day 0
C29_Witness ==
    /\ lastCall.op = "copy_shared_deck"
    /\ lastCall.outcome = "copied"
    /\ today > 0
    /\ lastCall.created # {}
    /\ \A c \in lastCall.created :
          /\ cards[c].deck_id = lastCall.deck_id
          /\ decks[cards[c].deck_id].owner_id = current_user.id
          /\ cards[c].next_due = today
    /\ \E c \in DOMAIN cards :
          /\ decks[cards[c].deck_id].owner_id = NULL
          /\ cards[c].next_due = 0
    /\ StandardDeckId \in DOMAIN decks

\* the acting user is the owner of deck d
OwnsDeck(d) ==
    /\ current_user # NoUser
    /\ d \in DOMAIN decks
    /\ decks[d].owner_id = current_user.id

\* C30: add_card_to_deck adds a card only to a deck owned by the acting
\* user.  For the owner the card is inserted unless the store fails, and the
\* call is never turned away for lack of permission; when the deck is
\* shared, owned by another user (the acting user being an admin or not),
\* missing, or nobody is logged in, the call is blocked and no card is
\* inserted.
C30_AddCardOwnerOnly ==
    /\ [](\A d \in DOMAIN decks :
             (OwnsDeck(d) /\ Cardinality(DOMAIN cards) < MaxCards) =>
                ENABLED (/\ AddCardToDeck(d)
                         /\ lastCall'.outcome = "saved"
                         /\ Cardinality(NewCards) = 1))
    /\ [][\A d \in 1..MaxDecks :
            AddCardToDeck(d) =>
               IF OwnsDeck(d)
               THEN /\ lastCall'.outcome \in {"saved", "could_not_save"}
                    /\ lastCall'.outcome = "saved" =>
                          /\ Cardinality(NewCards) = 1
                          /\ \A c \in NewCards : cards'[c].deck_id = d
                          /\ \A c \in DOMAIN cards : cards'[c] = cards[c]
                    /\ lastCall'.outcome = "could_not_save" =>
                          cards' = cards
               ELSE /\ cards' = cards
                    /\ lastCall'.outcome \in
                          {"login_required", "deck_not_found", "shared_deck",
                           "not_owner"}]_vars

\* the owner of deck 2 has added a card to it while an admin-owned standard
\* deck and the shared deck exist
C30_Witness ==
    /\ lastCall.op = "add_card_to_deck"
    /\ lastCall.outcome = "saved"
    /\ lastCall.deck_id = 2
    /\ current_user.id = 2
    /\ \E c \in lastCall.created : cards[c].deck_id = 2
    /\ StandardDeckId \in DOMAIN decks

\* C31: registration round trip.  create_user with a non-empty unused
\* username and a non-empty password succeeds (the statement not failing in
\* the database) and user_exists is then true for the name; a delete_user
\* that returns leaves user_exists false, and it returns for every user no
\* deck or ledger row refers to, a user just created included; create_user
\* with an empty username or password or with a taken username fails and
\* leaves the users as they were.
C31_RegistrationRoundTrip ==
    /\ (lastCall.op = "create_user" /\ lastCall.success) =>
          /\ lastCall.username # ""
          /\ lastCall.password # ""
          /\ ~user_exists(lastCall.before, lastCall.username)
          /\ user_exists(users, lastCall.username)
          /\ Cardinality(UserIdsOf(users, lastCall.username)) = 1
          /\ \A u \in DOMAIN lastCall.before : users[u] = lastCall.before[u]
          /\ ENABLED (/\ AuthDeleteUser(lastCall.username, FALSE)
                      /\ ~lastCall'.raised
                      /\ ~user_exists(users', lastCall.username))
    /\ (lastCall.op = "create_user" /\ ~lastCall.success) =>
          users = lastCall.before
    /\ (/\ lastCall.op = "create_user"
        /\ \/ lastCall.username = ""
           \/ lastCall.password = ""
           \/ user_exists(lastCall.before, lastCall.username)) =>
          ~lastCall.success
    /\ (/\ lastCall.op = "create_user"
        /\ lastCall.username # ""
        /\ lastCall.password # ""
        /\ ~user_exists(lastCall.before, lastCall.username)
        /\ ~lastCall.success) =>
          ENABLED (/\ CreateUser(lastCall.username, lastCall.password, FALSE)
                   /\ lastCall'.success)
    /\ (lastCall.op = "delete_user" /\ ~lastCall.raised) =>
          /\ ~user_exists(users, lastCall.username)
          /\ \A u \in DOMAIN users : users[u] = lastCall.before[u]
    /\ (lastCall.op = "delete_user" /\ lastCall.raised) =>
          users = lastCall.before

\* bob has been registered next to admin and ann and then deleted again
C31_Witness ==
    /\ lastCall.op = "delete_user"
    /\ lastCall.username = "bob"
    /\ ~lastCall.raised
    /\ user_exists(lastCall.before, "bob")
    /\ ~user_exists(users, "bob")
    /\ user_exists(users, "ann")

\* C32: starting from cards with the default schedule, after every sequence
\* of gradings and undos every stored card has interval_days >= 1,
\* ease_factor >= 1.3 and repetitions >= 0, with interval_days = 1 for
\* repetitions 0 or 1, interval_days = 6 for repetitions 2 and
\* interval_days >= 8 for repetitions 3 or more.
C32_StoredScheduleShape ==
    \A c \in DOMAIN cards :
        /\ cards[c].interval_days >= 1
        /\ cards[c].ease_factor >= 130
        /\ cards[c].repetitions >= 0
        /\ cards[c].repetitions \in {0, 1} => cards[c].interval_days = 1
        /\ cards[c].repetitions = 2 => cards[c].interval_days = 6
        /\ cards[c].repetitions >= 3 => cards[c].interval_days >= 8

\* the third grading of a card has been undone: the card is back at
\* repetitions 2 and six days
C32_Witness ==
    /\ lastCall.op = "undo_last_rating"
    /\ lastCall.outcome = "undone"
    /\ lastCall.before_row.repetitions = 2
    /\ \E c \in DOMAIN cards :
          /\ cards[c].repetitions = 2
          /\ cards[c].interval_days = 6
    /\ Cardinality(review_events) = 2

C34_NoPendingUndoOutsidePractice ==
    ~practice_view_visible => last_rating_action = NoAction

\* the owner has saved a rating and left practice, logged out, and the admin
\* is logged in: the ledger row is there and no undo is pending
C34_Witness ==
    /\ ~practice_view_visible
    /\ current_user # NoUser
    /\ current_user.id = 1
    /\ \E ev \in review_events : ev.user_id = 2
    /\ last_rating_action = NoAction

\* C35: a rate_card call that is rejected or whose saving fails leaves
\* last_rating_action, the stored rows and the ledger as they were; only a
\* saved rating replaces the slot, with the rated card, the id of its ledger
\* row and the values the card had; so an undo that follows "A saved, B
\* failed" restores A's card to those values and deletes A's ledger row.
C35_FailedGradingKeepsPending ==
    /\ [][RateStep /\ lastCall'.outcome # "saved"
            => UNCHANGED <<last_rating_action, cards, review_events,
                           current_card, is_showing_answer>>]_vars
    /\ [][RateStep /\ last_rating_action' # last_rating_action
            => lastCall'.outcome = "saved"]_vars
    /\ [](lastCall.op = "rate_card" /\ lastCall.outcome = "saved"
            => LET was == MakeCurrentCard(lastCall.card, lastCall.before_row)
               IN  /\ last_rating_action.card_id = lastCall.card
                   /\ last_rating_action.event_id = lastCall.event_id
                   /\ last_rating_action.previous =
                         [interval_days |-> was.interval_days,
                          ease_factor   |-> was.ease_factor,
                          repetitions   |-> was.repetitions,
                          next_due      |-> was.next_due]
                   /\ review_events \ lastCall.before_events =
                         {e \in review_events : e.id = lastCall.event_id})
    /\ [][(UndoStep /\ lastCall'.outcome = "undone"
                     /\ lastCall'.prev[1] = "rate_card"
                     /\ lastCall'.prev[2] # "saved")
            => LET a == last_rating_action
               IN  /\ a # NoAction
                   /\ \E e \in review_events :
                         e.id = a.event_id /\ e.card_id = a.card_id
                   /\ review_events' =
                         {e \in review_events : e.id # a.event_id}
                   /\ cards'[a.card_id].interval_days = a.previous.interval_days
                   /\ cards'[a.card_id].ease_factor = a.previous.ease_factor
                   /\ cards'[a.card_id].repetitions = a.previous.repetitions
                   /\ cards'[a.card_id].next_due = a.previous.next_due
                   /\ \A c \in DOMAIN cards \ {a.card_id} :
                         cards'[c] = cards[c]]_vars

\* an undo has gone through right after a rating of another card whose
\* saving failed
C35_Witness ==
    /\ lastCall.op = "undo_last_rating"
    /\ lastCall.outcome = "undone"
    /\ lastCall.prev = <<"rate_card", "save_failed">>
    /\ current_card.id = lastCall.card
    /\ last_rating_action = NoAction

\* C36: an undo that goes through makes the restored card the current card,
\* front side up, with the values the undo record kept; a rating pressed
\* next is turned away with "flip first" and changes nothing; flipping
\* leaves the current card's values alone; and every saved rating stores
\* calculate_schedule of the current card's values, so the rating after the
\* undo starts from the restored values.
C36_UndoRestoresCurrentCard ==
    /\ [][(UndoStep /\ lastCall'.outcome = "undone"
                     /\ last_rating_action.card_id \in DOMAIN cards)
            => LET a == last_rating_action
               IN  /\ current_card' =
                         [id            |-> a.card_id,
                          interval_days |-> a.previous.interval_days,
                          ease_factor   |-> a.previous.ease_factor,
                          repetitions   |-> a.previous.repetitions,
                          next_due      |-> a.previous.next_due]
                   /\ current_card' =
                         MakeCurrentCard(a.card_id, cards'[a.card_id])
                   /\ is_showing_answer' = FALSE]_vars
    /\ [][(lastCall.op = "undo_last_rating" /\ lastCall.outcome = "undone"
                                            /\ RateStep)
            => /\ lastCall'.outcome \in {"flip_first", "no_card"}
               /\ UNCHANGED <<cards, review_events, current_card>>]_vars
    /\ [][is_showing_answer' # is_showing_answer /\ is_showing_answer'
            => UNCHANGED <<current_card, cards, review_events>>]_vars
    /\ [][(RateStep /\ lastCall'.outcome = "saved")
            => \E e \in review_events' \ review_events :
                  LET s == calculate_schedule(current_card.interval_days,
                                              current_card.ease_factor,
                                              current_card.repetitions,
                                              e.grade, today)
                      row == cards'[current_card.id]
                  IN  /\ is_showing_answer
                      /\ e.card_id = current_card.id
                      /\ row.interval_days = s.interval_days
                      /\ row.ease_factor = s.ease_factor
                      /\ row.repetitions = s.repetitions
                      /\ row.next_due = s.next_due]_vars

\* the first rating was undone and the rating "good" pressed after it has
\* been saved: the ledger holds the second row only, and the rated card has
\* one repetition and the ease factor it had before
C36_Witness ==
    /\ lastCall.op = "rate_card"
    /\ lastCall.outcome = "saved"
    /\ lastCall.event_id = 2
    /\ review_events_id_seq = 3
    /\ \A e \in review_events : e.id = 2 /\ e.grade = "good"
    /\ cards[lastCall.card].ease_factor = lastCall.before_row.ease_factor
    /\ cards[lastCall.card].repetitions = 1

CopyStep == lastCall'.op = "copy_shared_deck_to_my_decks"

\* the source of the copy exists and is shared, and a user is logged in
CopyAllowed ==
    /\ current_user # NoUser
    /\ lastCall'.deck_id \in DOMAIN decks
    /\ decks[lastCall'.deck_id].owner_id = NULL

\* C37: a copy_shared_deck_to_my_decks call creates something only when the
\* source exists, is shared and a user is logged in; it then creates exactly
\* one deck, owned by that user, under a name none of the user's other decks
\* has, and one card per source card with the same front and back, all in
\* the new deck; a call that fails or is refused creates no deck and no card;
\* no call changes a deck or a card that was there before.
C37_CopyAllOrNothing ==
    [][CopyStep =>
        LET src       == CardsOfDeck(cards, lastCall'.deck_id)
            new_decks == DOMAIN decks' \ DOMAIN decks
            new_cards == DOMAIN cards' \ DOMAIN cards
        IN  /\ \A d \in DOMAIN decks : d \in DOMAIN decks' /\ decks'[d] = decks[d]
            /\ \A c \in DOMAIN cards : c \in DOMAIN cards' /\ cards'[c] = cards[c]
            /\ lastCall'.outcome = "copied" => CopyAllowed
            /\ CopyAllowed => lastCall'.outcome \in {"copied", "could_not_copy"}
            /\ lastCall'.outcome # "copied" => new_decks = {} /\ new_cards = {}
            /\ lastCall'.outcome = "copied" =>
                  /\ Cardinality(new_decks) = 1
                  /\ \A d \in new_decks :
                        /\ decks'[d].owner_id = current_user.id
                        /\ \A o \in DOMAIN decks' \ {d} :
                              decks'[o].owner_id = current_user.id
                                 => decks'[o].name # decks'[d].name
                        /\ \A c \in new_cards : cards'[c].deck_id = d
                  /\ \E f \in [new_cards -> src] :
                        /\ \A c \in src : \E n \in new_cards : f[n] = c
                        /\ \A a, b \in new_cards : a # b => f[a] # f[b]
                        /\ \A n \in new_cards :
                              /\ cards'[n].front = cards[f[n]].front
                              /\ cards'[n].back = cards[f[n]].back]_vars

\* user 2, who has a deck "A (Copy)", has copied the shared deck "A": the
\* copy is named "A (Copy) 2" and holds a card
C37_Witness ==
    /\ lastCall.op = "copy_shared_deck_to_my_decks"
    /\ lastCall.outcome = "copied"
    /\ lastCall.inserted >= 1
    /\ current_user.id = 2
    /\ \E d \in DOMAIN decks :
          /\ decks[d] = [owner_id |-> 2, name |-> CopiedName(SharedName, 2)]
          /\ CardsOfDeck(cards, d) # {}

ImportStep == lastCall'.op = "import_shared_deck_cards"

ScriptStep == lastCall'.op = "import_shared_deck.py"

\* the (front, back) pairs of the cards of a deck
PairsOfDeck(cs, deck_id) ==
    {<<cs[c].front, cs[c].back>> : c \in CardsOfDeck(cs, deck_id)}

PairsOf(pairs) == {pairs[i] : i \in 1..Len(pairs)}

\* C38: an import that goes through reports inserted + skipped = number of
\* pairs; it inserts one card for each distinct pair the deck did not hold
\* and skips the rest; the same list imported again under the same name
\* inserts nothing and changes nothing; a deck is created only when no
\* shared deck has the name, so no two shared decks share a name; without an
\* admin session import_shared_deck_cards changes nothing.  The counts and
\* the deck rule hold for a completed run of import_shared_deck.py too.
C38_ImportIdempotent ==
    /\ [][(ImportStep /\ lastCall'.outcome = "imported")
            \/ (ScriptStep /\ lastCall'.outcome = "completed")
            => LET r   == lastCall'
                   old == IF r.deck_id \in DOMAIN decks
                          THEN PairsOfDeck(cards, r.deck_id) ELSE {}
                   new_cards == DOMAIN cards' \ DOMAIN cards
               IN  /\ r.inserted + r.skipped = Len(r.pairs)
                   /\ r.inserted = Cardinality(PairsOf(r.pairs) \ old)
                   /\ r.inserted = Cardinality(new_cards)
                   /\ \A c \in new_cards :
                         /\ cards'[c].deck_id = r.deck_id
                         /\ <<cards'[c].front, cards'[c].back>>
                               \in PairsOf(r.pairs) \ old
                   /\ \A c \in DOMAIN cards : cards'[c] = cards[c]
                   /\ PairsOf(r.pairs) \subseteq PairsOfDeck(cards', r.deck_id)
                   /\ decks'[r.deck_id] = [owner_id |-> NULL,
                                           name |-> r.deck_name]]_vars
    /\ [][(/\ ImportStep
           /\ lastCall'.outcome = "imported"
           /\ lastCall.op = "import_shared_deck_cards"
           /\ lastCall.outcome = "imported"
           /\ lastCall'.pairs = lastCall.pairs
           /\ lastCall'.deck_name = lastCall.deck_name)
            => /\ lastCall'.inserted = 0
               /\ lastCall'.skipped = Len(lastCall.pairs)
               /\ lastCall'.deck_id = lastCall.deck_id
               /\ UNCHANGED <<cards, decks>>]_vars
    /\ [][ImportStep \/ ScriptStep
            => /\ \A d \in DOMAIN decks : decks'[d] = decks[d]
               /\ Cardinality(DOMAIN decks' \ DOMAIN decks) <= 1
               /\ \A d \in DOMAIN decks' \ DOMAIN decks :
                     /\ decks'[d].owner_id = NULL
                     /\ decks'[d].name = lastCall'.deck_name
                     /\ SharedDecksNamed(decks, lastCall'.deck_name) = {}]_vars
    /\ [](\A d, e \in DOMAIN decks :
            (decks[d].owner_id = NULL /\ decks[e].owner_id = NULL
                /\ decks[d].name = decks[e].name) => d = e)
    /\ [][(ImportStep /\ (current_user = NoUser
                            \/ ~Truthy(current_user.is_admin)))
            => /\ lastCall'.outcome = "admin_required"
               /\ UNCHANGED <<cards, decks>>]_vars

\* the admin has imported two different pairs into "Lektion-9" a second
\* time: both were skipped
C38_Witness ==
    /\ lastCall.op = "import_shared_deck_cards"
    /\ lastCall.outcome = "imported"
    /\ lastCall.deck_name = DECK_NAME
    /\ Len(lastCall.pairs) = 2
    /\ lastCall.pairs[1] # lastCall.pairs[2]
    /\ lastCall.inserted = 0
    /\ lastCall.skipped = 2

LoginStep == lastCall'.op = "login"

\* the login attempt of this step names a user and gives the password whose
\* hash the user's row holds
PasswordMatches ==
    \E u \in DOMAIN users :
        /\ users[u].username = lastCall'.username
        /\ users[u].password_hash = hashpw(lastCall'.password)

DecksOwnedBy(u) == {d \in DOMAIN decks : decks[d].owner_id = u}

CardsOwnedBy(u) == {c \in DOMAIN cards : cards[c].deck_id \in DecksOwnedBy(u)}

====
